---- MODULE Spec2Model ----
(***************************************************************************)
(* Record parsers of the git analytics server (src/tools/*.py).            *)
(*                                                                         *)
(* A Python str is a sequence of one-character strings.  The string        *)
(* methods the parsers call (strip, startswith, split, splitlines, int,    *)
(* isdigit) are operators computed the way CPython computes them on the    *)
(* characters the inputs below are made of.  Python's None is the value    *)
(* None where a string is expected and NoCommit where a commit dict is.    *)
(***************************************************************************)
EXTENDS Integers, Sequences, FiniteSets

VARIABLES
    fn,              \* the function that is called
    raw,             \* its argument raw
    target_file,     \* log parsers: the argument target_file of parse_file_history
    lines,           \* log parsers: raw.splitlines()
    i,               \* log parsers: index of the next line of the for loop
    current_commit,  \* log parsers: the local current_commit
    commits,         \* log parsers: the local commits; aggregators: the argument commits
    pc,              \* "start", "loop" (log parsers), "done" (returned), "raised"
    result,          \* the value returned by the other parsers and the aggregators
    error,           \* the exception the call raised, "" while it has raised none
    repo_path,       \* tools: the argument repo_path
    authors,         \* compare_developer_stats: the argument authors
    developer_stats, \* compare_developers: the argument; build_comparison_json: the local
    git_calls,       \* tools: the git commands run so far, in order
    repository,      \* server: the branches of the repository and of its remote
    tasks            \* server: the tool calls in progress, each with its locals

vars ==
    <<fn, raw, target_file, lines, i, current_commit, commits, pc, result,
      error, repo_path, authors, developer_stats, git_calls, repository, tasks>>

\* The variables of the server: the repository and the tool calls in progress.
serverVars == <<repository, tasks>>

\* The arguments and the effects of a tool call.
toolVars == <<repo_path, authors, developer_stats, git_calls, serverVars>>

\* No server: a function or a tool called on its own.
NoServer == repository = <<>> /\ tasks = <<>>

\* A function called on its own, outside any tool call.
NoTool ==
    /\ error = ""
    /\ repo_path = ""
    /\ authors = <<>>
    /\ developer_stats = <<>>
    /\ git_calls = <<>>
    /\ NoServer

----------------------------------------------------------------------------
(* Bounds of the model.                                                    *)

\* Largest number of lines of a commit-log text.
MaxLines == 4

----------------------------------------------------------------------------
(* Python str and int.                                                     *)

None == <<"<None>">>

NoCommit == <<>>

\* The characters str.strip() removes, among those the inputs use.
Whitespace == {" ", "\t", "\n"}

DigitChars == <<"0", "1", "2", "3", "4", "5", "6", "7", "8", "9">>

Digits == {DigitChars[k] : k \in 1..10}

\* U+00B2, SUPERSCRIPT TWO: str.isdigit() is True for it, int() rejects it.
SuperscriptTwo == "^2"

RECURSIVE LStrip(_)
LStrip(s) ==
    IF s = <<>> THEN s
    ELSE IF Head(s) \in Whitespace THEN LStrip(Tail(s)) ELSE s

RECURSIVE RStrip(_)
RStrip(s) ==
    IF s = <<>> THEN s
    ELSE IF s[Len(s)] \in Whitespace THEN RStrip(SubSeq(s, 1, Len(s) - 1)) ELSE s

\* str.strip()
Strip(s) == RStrip(LStrip(s))

\* str.startswith(p)
StartsWith(s, p) == Len(s) >= Len(p) /\ SubSeq(s, 1, Len(p)) = p

\* str.find(sub) + 1: the first position of sub in s, 0 when there is none.
Find(s, sub) ==
    LET at == {j \in 1..(Len(s) - Len(sub) + 1) : SubSeq(s, j, j + Len(sub) - 1) = sub}
    IN  IF at = {} THEN 0 ELSE CHOOSE j \in at : \A k \in at : j <= k

\* sub in s
Contains(s, sub) == Find(s, sub) # 0

\* str.split(sep, maxsplit); maxsplit = -1 is str.split(sep).
RECURSIVE Split(_, _, _)
Split(s, sep, maxsplit) ==
    LET j == Find(s, sep)
    IN  IF maxsplit = 0 \/ j = 0 THEN <<s>>
        ELSE <<SubSeq(s, 1, j - 1)>>
                \o Split(SubSeq(s, j + Len(sep), Len(s)), sep, maxsplit - 1)

\* str.split(): the maximal runs of non-whitespace characters.
RECURSIVE SplitWhitespace(_)
SplitWhitespace(s) ==
    LET t == LStrip(s)
        ws == {j \in 1..Len(t) : t[j] \in Whitespace}
        e == IF ws = {} THEN Len(t) + 1 ELSE CHOOSE j \in ws : \A k \in ws : j <= k
    IN  IF t = <<>> THEN <<>>
        ELSE <<SubSeq(t, 1, e - 1)>> \o SplitWhitespace(SubSeq(t, e, Len(t)))

\* str.splitlines(): no line for the empty string, none after a final "\n".
RECURSIVE SplitLines(_)
SplitLines(s) ==
    LET j == Find(s, <<"\n">>)
    IN  IF s = <<>> THEN <<>>
        ELSE IF j = 0 THEN <<s>>
        ELSE <<SubSeq(s, 1, j - 1)>> \o SplitLines(SubSeq(s, j + 1, Len(s)))

DigitVal(c) == (CHOOSE k \in 1..10 : DigitChars[k] = c) - 1

RECURSIVE DecimalValue(_)
DecimalValue(d) ==
    IF d = <<>> THEN 0
    ELSE 10 * DecimalValue(SubSeq(d, 1, Len(d) - 1)) + DigitVal(d[Len(d)])

\* int(s): surrounding whitespace, one optional sign, then decimal digits only;
\* ok = FALSE is ValueError.
ParseInt(s) ==
    LET t == Strip(s)
        signed == t # <<>> /\ t[1] \in {"+", "-"}
        d == IF signed THEN Tail(t) ELSE t
    IN  IF d # <<>> /\ \A k \in 1..Len(d) : d[k] \in Digits
        THEN [ok |-> TRUE,
              val |-> IF signed /\ t[1] = "-" THEN 0 - DecimalValue(d) ELSE DecimalValue(d)]
        ELSE [ok |-> FALSE, val |-> 0]

\* str.isdigit(): true of the decimal digits and of the superscript digits.
IsDigit(s) == s # <<>> /\ \A k \in 1..Len(s) : s[k] \in Digits \cup {SuperscriptTwo}

----------------------------------------------------------------------------
(* Commit-log texts: every sequence of at most MaxLines lines of LogLines, *)
(* joined by "\n".                                                         *)

SENTINEL == <<"C", "O", "M", "M", "I", "T", "|">>

\* "COMMIT|h|a|e|d|s"
LineCommitH == SENTINEL \o <<"h", "|", "a", "|", "e", "|", "d", "|", "s">>

\* "COMMIT|g|b|e|d|s|t": the subject holds a pipe
LineCommitG == SENTINEL \o <<"g", "|", "b", "|", "e", "|", "d", "|", "s", "|", "t">>

\* "COMMIT|h|a": a sentinel with 3 fields
LineCommitBad == SENTINEL \o <<"h", "|", "a">>

\* "12\t3\tf"
LineNumstat == <<"1", "2", "\t", "3", "\t", "f">>

\* " -\t- \tb ": a binary file, padded with blanks
LineBinary == <<" ", "-", "\t", "-", " ", "\t", "b", " ">>

\* "x\t1\tf": the additions field is no number
LineNotNumber == <<"x", "\t", "1", "\t", "f">>

\* "-5\t0\tg": a signed additions field
LineSigned == <<"-", "5", "\t", "0", "\t", "g">>

\* "1\t2": two fields
LineTwoFields == <<"1", "\t", "2">>

LineBlank == <<>>

LogLines ==
    {LineCommitH, LineCommitG, LineCommitBad, LineNumstat, LineBinary,
     LineNotNumber, LineSigned, LineTwoFields, LineBlank}

RECURSIVE JoinLines(_)
JoinLines(ls) ==
    IF ls = <<>> THEN <<>>
    ELSE IF Len(ls) = 1 THEN ls[1]
    ELSE ls[1] \o <<"\n">> \o JoinLines(Tail(ls))

LogTexts == {JoinLines(ls) : ls \in UNION {[1..n -> LogLines] : n \in 0..MaxLines}}

\* The path asked of parse_file_history.
TargetFiles == {<<"q">>}

----------------------------------------------------------------------------
(* parse_commit_history and parse_file_history.                            *)

RECURSIVE SumAdditions(_)
SumAdditions(files) ==
    IF files = <<>> THEN 0 ELSE Head(files).additions + SumAdditions(Tail(files))

RECURSIVE SumDeletions(_)
SumDeletions(files) ==
    IF files = <<>> THEN 0 ELSE Head(files).deletions + SumDeletions(Tail(files))

\* CloseCommit with total_deletions summed over the additions.
CloseCommitSumsAdditionsTwice(c) ==
    [hash |-> c.hash, author_name |-> c.author_name, author_email |-> c.author_email,
     date |-> c.date, message |-> c.message, files |-> c.files,
     stats |-> [total_files |-> Len(c.files),
                total_additions |-> SumAdditions(c.files),
                total_deletions |-> SumAdditions(c.files)]]

\* The commit with its "stats" entry, as appended to commits.
CloseCommit(c) ==
    [hash |-> c.hash, author_name |-> c.author_name, author_email |-> c.author_email,
     date |-> c.date, message |-> c.message, files |-> c.files,
     stats |-> [total_files |-> Len(c.files),
                total_additions |-> SumAdditions(c.files),
                total_deletions |-> SumDeletions(c.files)]]

\* The dict a sentinel line with 6 fields opens in parse_commit_history.
NewCommit(parts) ==
    [hash |-> Strip(parts[2]), author_name |-> Strip(parts[3]),
     author_email |-> Strip(parts[4]), date |-> Strip(parts[5]),
     message |-> Strip(parts[6]), files |-> <<>>]

\* NewFileCommit with the queried path as the default file_path.
NewFileCommitDefaultsToTarget(parts) ==
    [hash |-> Strip(parts[2]), author_name |-> Strip(parts[3]),
     author_email |-> Strip(parts[4]), date |-> Strip(parts[5]),
     message |-> Strip(parts[6]),
     changes |-> [additions |-> 0, deletions |-> 0, file_path |-> target_file]]

\* The dict a sentinel line with 6 fields opens in parse_file_history.
NewFileCommit(parts) ==
    [hash |-> Strip(parts[2]), author_name |-> Strip(parts[3]),
     author_email |-> Strip(parts[4]), date |-> Strip(parts[5]),
     message |-> Strip(parts[6]),
     changes |-> [additions |-> 0, deletions |-> 0, file_path |-> None]]

\* The number of fields a sentinel line must split into.
SentinelFields == 6

\* The number of fields a numstat line must split into.
NumstatFields == 3

\* OpenCommit without the reset of current_commit on a malformed sentinel.
OpenCommitKeepsCurrent(parts) ==
    IF Len(parts) # SentinelFields THEN current_commit ELSE <<NewCommit(parts)>>

\* current_commit after a sentinel line of parse_commit_history.
OpenCommit(parts) ==
    IF Len(parts) # SentinelFields THEN NoCommit ELSE <<NewCommit(parts)>>

\* current_commit after a sentinel line of parse_file_history.
OpenFileCommit(parts) ==
    IF Len(parts) # SentinelFields THEN NoCommit ELSE <<NewFileCommit(parts)>>

\* 0 if field.strip() == "-" else int(field)
NumstatField(field) ==
    IF Strip(field) = <<"-">> THEN [ok |-> TRUE, val |-> 0] ELSE ParseInt(field)

LogInit ==
    /\ fn \in {"parse_commit_history", "parse_file_history"}
    /\ raw \in LogTexts
    /\ target_file \in TargetFiles
    /\ lines = <<>>
    /\ i = 1
    /\ current_commit = NoCommit
    /\ commits = <<>>
    /\ pc = "start"
    /\ result = <<>>
    /\ NoTool

\* if not raw: return commits; otherwise enter the loop over raw.splitlines().
LogStart ==
    /\ pc = "start"
    /\ fn \in {"parse_commit_history", "parse_file_history"}
    /\ IF raw = <<>>
       THEN pc' = "done" /\ lines' = lines
       ELSE pc' = "loop" /\ lines' = SplitLines(raw)
    /\ UNCHANGED <<fn, raw, target_file, i, current_commit, commits, result>>
    /\ UNCHANGED <<error, toolVars>>

\* One iteration of parse_commit_history's loop.
CommitLine ==
    /\ pc = "loop"
    /\ fn = "parse_commit_history"
    /\ i <= Len(lines)
    /\ LET line == Strip(lines[i])
           flushed == IF current_commit # NoCommit
                      THEN Append(commits, CloseCommit(current_commit[1]))
                      ELSE commits
       IN  IF StartsWith(line, SENTINEL)
           THEN LET parts == Split(line, <<"|">>, 5)
                IN  /\ commits' = flushed
                    /\ current_commit' = OpenCommit(parts)
                    /\ pc' = pc
           ELSE IF current_commit # NoCommit /\ line # <<>>
           THEN LET parts == Split(line, <<"\t">>, -1)
                    additions == NumstatField(parts[1])
                    deletions == NumstatField(parts[2])
                    c == current_commit[1]
                IN  IF Len(parts) # NumstatFields
                    THEN UNCHANGED <<commits, current_commit, pc>>
                    ELSE IF ~additions.ok \/ ~deletions.ok
                    THEN pc' = "raised" /\ UNCHANGED <<commits, current_commit>>
                    ELSE /\ current_commit' =
                              <<[c EXCEPT !.files =
                                   Append(@, [path |-> Strip(parts[3]),
                                              additions |-> additions.val,
                                              deletions |-> deletions.val])]>>
                         /\ UNCHANGED <<commits, pc>>
           ELSE UNCHANGED <<commits, current_commit, pc>>
    /\ i' = IF pc' = "raised" THEN i ELSE i + 1
    /\ UNCHANGED <<fn, raw, target_file, lines, result>>
    /\ error' = IF pc' = "raised" THEN "ValueError" ELSE error
    /\ UNCHANGED toolVars

\* One iteration of parse_file_history's loop.
FileLine ==
    /\ pc = "loop"
    /\ fn = "parse_file_history"
    /\ i <= Len(lines)
    /\ LET line_stripped == Strip(lines[i])
           flushed == IF current_commit # NoCommit
                      THEN Append(commits, current_commit[1])
                      ELSE commits
       IN  IF StartsWith(line_stripped, SENTINEL)
           THEN LET parts == Split(line_stripped, <<"|">>, 5)
                IN  /\ commits' = flushed
                    /\ current_commit' = OpenFileCommit(parts)
                    /\ pc' = pc
           ELSE IF current_commit # NoCommit /\ line_stripped # <<>>
           THEN LET parts == Split(line_stripped, <<"\t">>, -1)
                    additions == NumstatField(parts[1])
                    deletions == NumstatField(parts[2])
                    c == current_commit[1]
                IN  IF Len(parts) # NumstatFields
                    THEN UNCHANGED <<commits, current_commit, pc>>
                    ELSE IF ~additions.ok \/ ~deletions.ok
                    THEN pc' = "raised" /\ UNCHANGED <<commits, current_commit>>
                    ELSE /\ current_commit' =
                              <<[c EXCEPT !.changes =
                                   [additions |-> additions.val,
                                    deletions |-> deletions.val,
                                    file_path |-> Strip(parts[3])]]>>
                         /\ UNCHANGED <<commits, pc>>
           ELSE UNCHANGED <<commits, current_commit, pc>>
    /\ i' = IF pc' = "raised" THEN i ELSE i + 1
    /\ UNCHANGED <<fn, raw, target_file, lines, result>>
    /\ error' = IF pc' = "raised" THEN "ValueError" ELSE error
    /\ UNCHANGED toolVars

\* After the loop: the open commit is appended and commits is returned.
LogReturn ==
    /\ pc = "loop"
    /\ i > Len(lines)
    /\ commits' = IF current_commit = NoCommit THEN commits
                  ELSE IF fn = "parse_commit_history"
                  THEN Append(commits, CloseCommit(current_commit[1]))
                  ELSE Append(commits, current_commit[1])
    /\ current_commit' = NoCommit
    /\ pc' = "done"
    /\ UNCHANGED <<fn, raw, target_file, lines, i, result>>
    /\ UNCHANGED <<error, toolVars>>

LogNext == LogStart \/ CommitLine \/ FileLine \/ LogReturn

SpecLog == LogInit /\ [][LogNext]_vars

----------------------------------------------------------------------------
(* parse_branches.                                                         *)

\* Largest number of lines of a branch listing.
MaxBranchLines == 3

\* "m|1"
BranchLineMain == <<"m", "|", "1">>

\* " d | 2 ": padded with blanks
BranchLinePadded == <<" ", "d", " ", "|", " ", "2", " ">>

\* "a|b|3": two pipes
BranchLineTwoPipes == <<"a", "|", "b", "|", "3">>

\* "e|": no date
BranchLineNoDate == <<"e", "|">>

\* "|4": no name
BranchLineNoName == <<"|", "4">>

\* "n": no pipe
BranchLineNoPipe == <<"n">>

BranchLines ==
    {BranchLineMain, BranchLinePadded, BranchLineTwoPipes, BranchLineNoDate,
     BranchLineNoName, BranchLineNoPipe, LineBlank}

BranchTexts ==
    {JoinLines(ls) : ls \in UNION {[1..n -> BranchLines] : n \in 0..MaxBranchLines}}

\* The number of fields a branch line must split into.
BranchFields == 2

\* The records the loop of parse_branches appends for the lines ls.
RECURSIVE BranchRecords(_)
BranchRecords(ls) ==
    IF ls = <<>> THEN <<>>
    ELSE LET line == Strip(Head(ls))
             parts == Split(line, <<"|">>, 1)
         IN  IF line = <<>> THEN BranchRecords(Tail(ls))
             ELSE IF Len(parts) # BranchFields \/ Strip(parts[1]) = <<>>
             THEN BranchRecords(Tail(ls))
             ELSE <<[name |-> Strip(parts[1]), last_commit_date |-> Strip(parts[2])]>>
                     \o BranchRecords(Tail(ls))

parse_branches(text) == BranchRecords(SplitLines(text))

BranchInit ==
    /\ fn = "parse_branches"
    /\ raw \in BranchTexts
    /\ target_file = None
    /\ lines = <<>>
    /\ i = 1
    /\ current_commit = NoCommit
    /\ commits = <<>>
    /\ pc = "start"
    /\ result = <<>>
    /\ NoTool

CallParseBranches ==
    /\ pc = "start"
    /\ fn = "parse_branches"
    /\ result' = parse_branches(raw)
    /\ pc' = "done"
    /\ UNCHANGED <<fn, raw, target_file, lines, i, current_commit, commits>>
    /\ UNCHANGED <<error, toolVars>>

BranchNext == CallParseBranches

SpecBranches == BranchInit /\ [][BranchNext]_vars

----------------------------------------------------------------------------
(* parse_fetch_output.                                                     *)

\* Largest number of lines of a fetch transcript.
MaxFetchLines == 3

\* "Fetching o": names the remote o
FetchLineRemoteO == <<"F", "e", "t", "c", "h", "i", "n", "g", " ", "o">>

\* "Fetching u": names the remote u
FetchLineRemoteU == <<"F", "e", "t", "c", "h", "i", "n", "g", " ", "u">>

\* "Fetching": names no remote
FetchLineNoRemote == <<"F", "e", "t", "c", "h", "i", "n", "g">>

\* "* [new branch] x -> o/f": a new branch; the local name x is followed by a blank
FetchLineNew == <<"*", " ", "[", "n", "e", "w", " ", "b", "r", "a", "n", "c", "h", "]", " ", "x", " ", "-", ">", " ", "o", "/", "f">>

\* "m -> o/m": an updated branch
FetchLineUpdated == <<"m", " ", "-", ">", " ", "o", "/", "m">>

\* "- [deleted] y -> o/d": a pruned branch
FetchLineDeleted == <<"-", " ", "[", "d", "e", "l", "e", "t", "e", "d", "]", " ", "y", " ", "-", ">", " ", "o", "/", "d">>

\* "x n -> o/p/q": the pruned marker x, a branch name holding a slash
FetchLinePrunedX == <<"x", " ", "n", " ", "-", ">", " ", "o", "/", "p", "/", "q">>

\* "a -> nob": no slash after the arrow
FetchLineNoSlash == <<"a", " ", "-", ">", " ", "n", "o", "b">>

\* "* [new branch] p->q/r -> o/p->q/r": the branch p->q/r: two more arrows in the line
FetchLineTwoArrows == <<"*", " ", "[", "n", "e", "w", " ", "b", "r", "a", "n", "c", "h", "]", " ", "p", "-", ">", "q", "/", "r", " ", "-", ">", " ", "o", "/", "p", "-", ">", "q", "/", "r">>

FetchLines ==
    {FetchLineRemoteO, FetchLineRemoteU, FetchLineNoRemote, FetchLineNew, FetchLineUpdated,
     FetchLineDeleted, FetchLinePrunedX, FetchLineNoSlash, FetchLineTwoArrows, LineBlank}

FetchTexts ==
    {JoinLines(ls) : ls \in UNION {[1..n -> FetchLines] : n \in 0..MaxFetchLines}}

\* The characters of the transcripts in code point order, as sorted() compares them.
CodePointOrder == <<" ", "*", "-", "/", ">", "F", "[", "]", "a", "b", "c", "d", "e", "f", "g", "h", "i", "l", "m", "n", "o", "p", "q", "r", "t", "u", "w", "x", "y">>

CodePointRank(c) == CHOOSE k \in 1..Len(CodePointOrder) : CodePointOrder[k] = c

\* a < b on str
RECURSIVE StrLess(_, _)
StrLess(a, b) ==
    IF b = <<>> THEN FALSE
    ELSE IF a = <<>> THEN TRUE
    ELSE IF Head(a) = Head(b) THEN StrLess(Tail(a), Tail(b))
    ELSE CodePointRank(Head(a)) < CodePointRank(Head(b))

\* sorted(list(S)) for a set of str
RECURSIVE Sorted(_)
Sorted(S) ==
    IF S = {} THEN <<>>
    ELSE LET least == CHOOSE a \in S : \A b \in S \ {a} : StrLess(a, b)
         IN  <<least>> \o Sorted(S \ {least})

ARROW == <<"-", ">">>

\* <<remote, branch>> when the line splits at "->" into 2 parts and the second,
\* stripped, holds a "/"; <<>> otherwise.
ArrowTarget(line_stripped) ==
    LET parts == Split(line_stripped, ARROW, -1)
        branch_info == Strip(parts[2])
    IN  IF Len(parts) = 2 /\ Contains(branch_info, <<"/">>)
        THEN Split(branch_info, <<"/">>, 1)
        ELSE <<>>

\* The loop of parse_fetch_output over the lines ls.
RECURSIVE FetchLoop(_, _, _, _)
FetchLoop(ls, remotes_set, branches_updated, branches_pruned) ==
    IF ls = <<>>
    THEN [remotes_synced |-> Sorted(remotes_set),
          branches_updated |-> branches_updated,
          branches_pruned |-> branches_pruned]
    ELSE LET line_stripped == Strip(Head(ls))
             words == SplitWhitespace(line_stripped)
             remotes == IF Contains(line_stripped, <<"F", "e", "t", "c", "h", "i", "n", "g">>)
                           /\ Len(words) >= 2
                        THEN remotes_set \cup {words[2]}
                        ELSE remotes_set
             target == ArrowTarget(line_stripped)
             is_new == Contains(line_stripped,
                           <<"[", "n", "e", "w", " ", "b", "r", "a", "n", "c", "h", "]">>)
             is_pruned == \/ Contains(line_stripped,
                                <<"[", "d", "e", "l", "e", "t", "e", "d", "]">>)
                          \/ Contains(line_stripped, <<"x", " ">>)
         IN  IF line_stripped = <<>>
             THEN FetchLoop(Tail(ls), remotes_set, branches_updated, branches_pruned)
             ELSE IF ~Contains(line_stripped, ARROW) \/ target = <<>>
             THEN FetchLoop(Tail(ls), remotes, branches_updated, branches_pruned)
             ELSE IF is_new
             THEN FetchLoop(Tail(ls), remotes,
                      Append(branches_updated,
                          [remote |-> target[1], branch |-> target[2], action |-> "new"]),
                      branches_pruned)
             ELSE IF is_pruned
             THEN FetchLoop(Tail(ls), remotes, branches_updated,
                      Append(branches_pruned, target[2]))
             ELSE FetchLoop(Tail(ls), remotes,
                      Append(branches_updated,
                          [remote |-> target[1], branch |-> target[2], action |-> "updated"]),
                      branches_pruned)

parse_fetch_output(text) ==
    LET parsed == IF text = <<>>
                  THEN [remotes_synced |-> <<>>, branches_updated |-> <<>>,
                        branches_pruned |-> <<>>]
                  ELSE FetchLoop(SplitLines(text), {}, <<>>, <<>>)
    IN  [remotes_synced |-> parsed.remotes_synced,
         branches_updated |-> parsed.branches_updated,
         branches_pruned |-> parsed.branches_pruned,
         raw_output |-> text]

FetchInit ==
    /\ fn = "parse_fetch_output"
    /\ raw \in FetchTexts
    /\ target_file = None
    /\ lines = <<>>
    /\ i = 1
    /\ current_commit = NoCommit
    /\ commits = <<>>
    /\ pc = "start"
    /\ result = <<>>
    /\ NoTool

CallParseFetchOutput ==
    /\ pc = "start"
    /\ fn = "parse_fetch_output"
    /\ result' = parse_fetch_output(raw)
    /\ pc' = "done"
    /\ UNCHANGED <<fn, raw, target_file, lines, i, current_commit, commits>>
    /\ UNCHANGED <<error, toolVars>>

FetchNext == CallParseFetchOutput

SpecFetch == FetchInit /\ [][FetchNext]_vars

----------------------------------------------------------------------------
(* parse_status_output.                                                    *)

\* Largest ahead or behind count of a status line.
MaxCount == 11

\* The decimal numeral git prints for n.
RECURSIVE Decimal(_)
Decimal(n) ==
    IF n < 10 THEN <<DigitChars[n + 1]>>
    ELSE Decimal(n \div 10) \o <<DigitChars[(n % 10) + 1]>>

StatusBranches == {<<"m">>, <<"d", "e", "v">>}

StatusTrackings == {<<"o", "/", "m">>}

\* "## B"
StatusBare(b) == <<"#", "#", " ">> \o b

\* "## B...T"
StatusTracked(b, t) == StatusBare(b) \o <<".", ".", ".">> \o t

\* "## B...T [ahead N]"
StatusAhead(b, t, n) ==
    StatusTracked(b, t) \o <<" ", "[", "a", "h", "e", "a", "d", " ">> \o Decimal(n) \o <<"]">>

\* "## B...T [behind M]"
StatusBehind(b, t, m) ==
    StatusTracked(b, t) \o <<" ", "[", "b", "e", "h", "i", "n", "d", " ">> \o Decimal(m) \o <<"]">>

\* "## B...T [ahead N, behind M]"
StatusDiverged(b, t, n, m) ==
    StatusTracked(b, t) \o <<" ", "[", "a", "h", "e", "a", "d", " ">> \o Decimal(n)
        \o <<",", " ", "b", "e", "h", "i", "n", "d", " ">> \o Decimal(m) \o <<"]">>

\* "## B...T [gone]"
StatusGone(b, t) == StatusTracked(b, t) \o <<" ", "[", "g", "o", "n", "e", "]">>

\* "## B...T [ahead x]": the count is no digit
StatusAheadNoDigit(b, t) ==
    StatusTracked(b, t) \o <<" ", "[", "a", "h", "e", "a", "d", " ", "x", "]">>

\* "## B...T [ahead N]" with U+00B2 for N
StatusAheadSuperscript(b, t) ==
    StatusTracked(b, t) \o <<" ", "[", "a", "h", "e", "a", "d", " ", SuperscriptTwo, "]">>

\* "## B (no branch)": words after the branch
StatusDetached(b) == StatusBare(b) \o <<" ", "(", "n", "o", " ", "b", "r", "a", "n", "c", "h", ")">>

StatusFirstLines ==
    {<<>>, <<"#", "#">>, <<"#", "#", " ">>, <<" ", "M", " ", "f">>}
    \cup {StatusBare(b) : b \in StatusBranches}
    \cup {<<" ">> \o StatusBare(b) : b \in StatusBranches}
    \cup {StatusDetached(b) : b \in StatusBranches}
    \cup UNION {{StatusTracked(b, t), StatusGone(b, t), StatusAheadNoDigit(b, t),
                 StatusAheadSuperscript(b, t)}
                \cup {StatusAhead(b, t, n) : n \in 0..MaxCount}
                \cup {StatusBehind(b, t, n) : n \in 0..MaxCount}
                \cup {StatusDiverged(b, t, n, m) : n \in 0..MaxCount, m \in 0..MaxCount} :
                b \in StatusBranches, t \in StatusTrackings}

\* The report is its first line alone, or followed by the line " M f".
StatusTexts ==
    StatusFirstLines \cup {l \o <<"\n", " ", "M", " ", "f">> : l \in StatusFirstLines}

UnknownStatus ==
    [current_branch |-> None, tracking |-> None, ahead |-> 0, behind |-> 0,
     sync_status |-> "unknown"]

\* StatusCount without the cut at the comma.
StatusCountKeepsComma(status_part, keyword) ==
    LET count_str == Strip(Split(status_part, keyword, -1)[2])
    IN  IF IsDigit(count_str) THEN ParseInt(count_str) ELSE [ok |-> TRUE, val |-> 0]

\* int(s) if s.isdigit() else 0, s the text after keyword up to the next comma.
StatusCount(status_part, keyword) ==
    LET count_str == Strip(Split(Strip(Split(status_part, keyword, -1)[2]), <<",">>, -1)[1])
    IN  IF IsDigit(count_str) THEN ParseInt(count_str) ELSE [ok |-> TRUE, val |-> 0]

SyncStatus(ahead, behind) ==
    IF ahead > 0 /\ behind > 0 THEN "diverged"
    ELSE IF ahead > 0 THEN "ahead"
    ELSE IF behind > 0 THEN "behind"
    ELSE "up-to-date"

AHEAD == <<"a", "h", "e", "a", "d">>

BEHIND == <<"b", "e", "h", "i", "n", "d">>

\* raised = TRUE is ValueError; otherwise value is the dict returned.
parse_status_output(text) ==
    LET branch_line == Strip(SplitLines(text)[1])
        branch_info == Strip(SubSeq(branch_line, 4, Len(branch_line)))
        parts == Split(branch_info, <<".", ".", ".">>, -1)
        rest == Strip(parts[2])
        status_part == Split(Split(rest, <<"[">>, -1)[2], <<"]">>, -1)[1]
        has_status == Contains(rest, <<"[">>)
        ahead == IF has_status /\ Contains(status_part, AHEAD)
                 THEN StatusCount(status_part, AHEAD) ELSE [ok |-> TRUE, val |-> 0]
        behind == IF has_status /\ Contains(status_part, BEHIND)
                  THEN StatusCount(status_part, BEHIND) ELSE [ok |-> TRUE, val |-> 0]
    IN  IF text = <<>> \/ SplitLines(text) = <<>> THEN [raised |-> FALSE, value |-> UnknownStatus]
        ELSE IF ~StartsWith(branch_line, <<"#", "#">>)
        THEN [raised |-> FALSE, value |-> UnknownStatus]
        ELSE IF Contains(branch_info, <<".", ".", ".">>)
        THEN IF ~ahead.ok \/ ~behind.ok THEN [raised |-> TRUE, value |-> <<>>]
             ELSE [raised |-> FALSE,
                   value |-> [current_branch |-> Strip(parts[1]),
                              tracking |-> IF has_status
                                           THEN Strip(Split(rest, <<"[">>, -1)[1])
                                           ELSE rest,
                              ahead |-> ahead.val,
                              behind |-> behind.val,
                              sync_status |-> SyncStatus(ahead.val, behind.val)]]
        ELSE [raised |-> FALSE,
              value |-> [current_branch |-> IF branch_info # <<>>
                                            THEN SplitWhitespace(branch_info)[1]
                                            ELSE None,
                         tracking |-> None,
                         ahead |-> 0,
                         behind |-> 0,
                         sync_status |-> SyncStatus(0, 0)]]

StatusInit ==
    /\ fn = "parse_status_output"
    /\ raw \in StatusTexts
    /\ target_file = None
    /\ lines = <<>>
    /\ i = 1
    /\ current_commit = NoCommit
    /\ commits = <<>>
    /\ pc = "start"
    /\ result = <<>>
    /\ NoTool

CallParseStatusOutput ==
    /\ pc = "start"
    /\ fn = "parse_status_output"
    /\ LET out == parse_status_output(raw)
       IN  /\ result' = out.value
           /\ pc' = IF out.raised THEN "raised" ELSE "done"
    /\ UNCHANGED <<fn, raw, target_file, lines, i, current_commit, commits>>
    /\ error' = IF pc' = "raised" THEN "ValueError" ELSE error
    /\ UNCHANGED toolVars

StatusNext == CallParseStatusOutput

SpecStatus == StatusInit /\ [][StatusNext]_vars

----------------------------------------------------------------------------
(* Commit histories given to the aggregators: lists of the records         *)
(* parse_commit_history returns.                                           *)

\* Largest number of commits of a history given to analyze_developer_stats
\* and analyze_code_health.
MaxCommits == 3

\* The most paths one commit of these histories touches.
MaxPaths == 22

\* The number of extensions the numbered paths cycle through.
MaxExts == 11

\* str.rfind(sub) + 1: the last position of sub in s, 0 when there is none.
RFind(s, sub) ==
    LET at == {j \in 1..(Len(s) - Len(sub) + 1) : SubSeq(s, j, j + Len(sub) - 1) = sub}
    IN  IF at = {} THEN 0 ELSE CHOOSE j \in at : \A k \in at : j >= k

\* str.rsplit(sep, 1)
RSplitOnce(s, sep) ==
    LET j == RFind(s, sep)
    IN  IF j = 0 THEN <<s>>
        ELSE <<SubSeq(s, 1, j - 1), SubSeq(s, j + Len(sep), Len(s))>>

\* One entry of a commit's files list.
FileChange(path, additions, deletions) ==
    [path |-> path, additions |-> additions, deletions |-> deletions]

\* The record parse_commit_history returns for a commit of author at date
\* that changed files.
CommitOf(author, date, files) ==
    CloseCommit([hash |-> <<"h">>, author_name |-> author, author_email |-> <<"e">>,
                 date |-> date, message |-> <<"s">>, files |-> files])

\* "fK.eJ": the K-th numbered path; its extension is shared every MaxExts paths.
NumberedPath(k) ==
    <<"f">> \o Decimal(k) \o <<".", "e">> \o Decimal(((k - 1) % MaxExts) + 1)

\* "x": a path without extension
PathNoExt == <<"x">>

\* "a.b/c": the last dot is in the directory name
PathDotInDir == <<"a", ".", "b", "/", "c">>

\* "t.tar.e1": two dots
PathTwoDots == <<"t", ".", "t", "a", "r", ".", "e", "1">>

\* ".g": a leading dot
PathHidden == <<".", "g">>

\* "d.": a trailing dot
PathTrailingDot == <<"d", ".">>

\* The files list of a commit that touches the first n numbered paths.
BulkFiles(n) == [k \in 1..n |-> FileChange(NumberedPath(k), 1, 0)]

DATE == <<"2", "0", "2", "5", "-", "0", "1", "-", "0", "2", " ",
          "1", "0", ":", "0", "0", ":", "0", "0", " ", "+", "0", "0", "0", "0">>

AuthorA == <<"a">>

AuthorB == <<"b">>

\* The numbers of paths of the bulk commits: around the 10 extensions and the
\* 20 files the reports keep.
BulkSizes == {MaxExts, MaxPaths - 1, MaxPaths}

\* The commits the histories are made of.
HistoryCommits ==
    {CommitOf(AuthorA, DATE, BulkFiles(n)) : n \in BulkSizes}
    \cup {CommitOf(AuthorA, DATE, <<>>),
          CommitOf(AuthorB, DATE, <<FileChange(PathNoExt, 3, 1)>>),
          CommitOf(AuthorB, DATE, <<FileChange(NumberedPath(MaxPaths), 60, 50),
                                   FileChange(PathTwoDots, 0, 2)>>),
          CommitOf(AuthorA, DATE, <<FileChange(PathHidden, 2, 0),
                                   FileChange(NumberedPath(MaxExts), 0, 0),
                                   FileChange(PathDotInDir, 1, 1)>>),
          CommitOf(AuthorB, DATE, <<FileChange(PathTrailingDot, 1, 0),
                                   FileChange(PathNoExt, 80, 30)>>)}

Histories == UNION {[1..n -> HistoryCommits] : n \in 0..MaxCommits}

----------------------------------------------------------------------------
(* analyze_developer_stats.                                                *)

\* The number of files most_active_files keeps.
MostActiveFiles == 20

\* The number of extensions file_types and file_types_distribution keep.
MostCommonTypes == 10

\* sum(s), the additions paired so that the nesting stays shallow.
RECURSIVE SumSeq(_)
SumSeq(s) ==
    IF Len(s) = 0 THEN 0
    ELSE IF Len(s) = 1 THEN s[1]
    ELSE LET h == Len(s) \div 2
         IN  SumSeq(SubSeq(s, 1, h)) + SumSeq(SubSeq(s, h + 1, Len(s)))

SumTotalFiles(cs) == SumSeq([k \in 1..Len(cs) |-> cs[k].stats.total_files])

SumTotalAdditions(cs) == SumSeq([k \in 1..Len(cs) |-> cs[k].stats.total_additions])

SumTotalDeletions(cs) == SumSeq([k \in 1..Len(cs) |-> cs[k].stats.total_deletions])

\* list[:n]
Take(s, n) == SubSeq(s, 1, IF Len(s) < n THEN Len(s) ELSE n)

\* SortedDescending with equal keys left in the reverse of their order.
SortedDescendingTiesReversed(keys) ==
    LET n == Len(keys)
        before(j) ==
            Cardinality({m \in 1..n : keys[m] > keys[j] \/ (keys[m] = keys[j] /\ m > j)})
    IN  [r \in 1..n |-> CHOOSE j \in 1..n : before(j) = r - 1]

\* list.sort(key=..., reverse=True) and sorted(..., reverse=True), both stable:
\* the positions of keys in the order the sort leaves them.
SortedDescending(keys) ==
    LET n == Len(keys)
        before(j) ==
            Cardinality({m \in 1..n : keys[m] > keys[j] \/ (keys[m] = keys[j] /\ m < j)})
    IN  [r \in 1..n |-> CHOOSE j \in 1..n : before(j) = r - 1]

\* The positions at which keys holds a value for the first time: the order in
\* which a dict receives its keys.
FirstPositions(keys) ==
    LET P == {k \in 1..Len(keys) : \A m \in 1..(k - 1) : keys[m] # keys[k]}
    IN  [r \in 1..Cardinality(P) |-> CHOOSE j \in P : Cardinality({m \in P : m < j}) = r - 1]

\* The entries the nested loops over cs and over each commit's files visit, in order.
RECURSIVE AllFiles(_)
AllFiles(cs) ==
    IF Len(cs) = 0 THEN <<>>
    ELSE IF Len(cs) = 1 THEN cs[1].files
    ELSE LET h == Len(cs) \div 2
         IN  AllFiles(SubSeq(cs, 1, h)) \o AllFiles(SubSeq(cs, h + 1, Len(cs)))

\* The dict file_stats after the loop body ran for files: one entry per path, in
\* insertion order, counting and summing the entries of that path.
FileStats(files) ==
    LET first == FirstPositions([k \in 1..Len(files) |-> files[k].path])
    IN  [r \in 1..Len(first) |->
            LET path == files[first[r]].path
                touched == SelectSeq(files, LAMBDA f : f.path = path)
            IN  [path |-> path,
                 commits |-> Len(touched),
                 additions |-> SumSeq([m \in 1..Len(touched) |-> touched[m].additions]),
                 deletions |-> SumSeq([m \in 1..Len(touched) |-> touched[m].deletions])]]

NO_EXTENSION ==
    <<"(", "n", "o", " ", "e", "x", "t", "e", "n", "s", "i", "o", "n", ")">>

\* Extension with the text after the first dot of the path.
ExtensionAfterFirstDot(path) ==
    LET parts == Split(path, <<".">>, -1)
    IN  IF Contains(path, <<".">>) THEN <<".">> \o parts[2] ELSE NO_EXTENSION

\* "." + path.split(".")[-1], or the label of the paths without a dot.
Extension(path) ==
    LET parts == Split(path, <<".">>, -1)
    IN  IF Contains(path, <<".">>) THEN <<".">> \o parts[Len(parts)] ELSE NO_EXTENSION

\* The Counter after the keys exts are counted, in insertion order.
CountTypes(exts) ==
    LET first == FirstPositions(exts)
    IN  [r \in 1..Len(first) |->
            [ext |-> exts[first[r]],
             count |-> Cardinality({m \in 1..Len(exts) : exts[m] = exts[first[r]]})]]

\* Counter.most_common(n)
MostCommon(counter, n) ==
    LET order == SortedDescending([k \in 1..Len(counter) |-> counter[k].count])
    IN  Take([r \in 1..Len(counter) |-> counter[order[r]]], n)

EmptyDeveloperStats ==
    [total_commits |-> 0, total_files_changed |-> 0, total_additions |-> 0,
     total_deletions |-> 0, most_active_files |-> <<>>, file_types |-> <<>>]

\* analyze_developer_stats with total_files_changed the number of distinct paths.
TotalFilesChangedDistinct(cs) == Len(FileStats(AllFiles(cs)))

\* sum(c["stats"]["total_files"] for c in commits)
TotalFilesChanged(cs) == SumTotalFiles(cs)

\* The dicts most_active_files and file_types are lists of their items, in order.
analyze_developer_stats(cs) ==
    LET file_stats == FileStats(AllFiles(cs))
        order == SortedDescending([k \in 1..Len(file_stats) |-> file_stats[k].commits])
        most_active_files == [r \in 1..Len(file_stats) |-> file_stats[order[r]]]
        file_type_counter ==
            CountTypes([k \in 1..Len(file_stats) |-> Extension(file_stats[k].path)])
    IN  IF cs = <<>> THEN EmptyDeveloperStats
        ELSE [total_commits |-> Len(cs),
              total_files_changed |-> TotalFilesChanged(cs),
              total_additions |-> SumTotalAdditions(cs),
              total_deletions |-> SumTotalDeletions(cs),
              most_active_files |-> Take(most_active_files, MostActiveFiles),
              file_types |-> MostCommon(file_type_counter, MostCommonTypes)]

DeveloperStatsInit ==
    /\ fn = "analyze_developer_stats"
    /\ raw = <<>>
    /\ target_file = None
    /\ lines = <<>>
    /\ i = 1
    /\ current_commit = NoCommit
    /\ commits \in Histories
    /\ pc = "start"
    /\ result = <<>>
    /\ NoTool

CallAnalyzeDeveloperStats ==
    /\ pc = "start"
    /\ fn = "analyze_developer_stats"
    /\ result' = analyze_developer_stats(commits)
    /\ pc' = "done"
    /\ UNCHANGED <<fn, raw, target_file, lines, i, current_commit, commits, error, toolVars>>

DeveloperStatsNext == CallAnalyzeDeveloperStats

SpecDeveloperStats == DeveloperStatsInit /\ [][DeveloperStatsNext]_vars

----------------------------------------------------------------------------
(* analyze_code_health.  Percentages are held in tenths of a percent.      *)

RISK_HIGH_COMMITS == 15

RISK_MEDIUM_COMMITS == 8

RISK_HIGH_DEVELOPERS == 5

RISK_MEDIUM_DEVELOPERS == 3

HIGH_CHURN_THRESHOLD == 100

\* STABILITY_THRESHOLD = 0.3, as the fraction STABILITY_NUM / STABILITY_DEN
STABILITY_NUM == 3

STABILITY_DEN == 10

\* The number of hotspots the report keeps.
TopHotspots == 10

\* The number of high-churn files the report keeps.
TopChurn == 5

\* abs(n)
Abs(n) == IF n < 0 THEN 0 - n ELSE n

\* round(n / d, 0) of the quotient of two non-negative integers: to the nearest
\* integer, a tie to the even one.
RoundHalfEven(n, d) ==
    LET q == n \div d
        r == n % d
    IN  IF 2 * r > d THEN q + 1
        ELSE IF 2 * r < d THEN q
        ELSE IF q % 2 = 0 THEN q ELSE q + 1

\* round((count / total) * 100, 1) if total > 0 else 0, in tenths of a percent.
Percentage(count, total) ==
    IF total > 0 THEN RoundHalfEven(1000 * count, total) ELSE 0

\* Each entry of a commit's files with the commit's author_name: what the nested
\* loops of analyze_code_health and analyze_team_performance visit, in order.
RECURSIVE AuthoredFiles(_)
AuthoredFiles(cs) ==
    IF Len(cs) = 0 THEN <<>>
    ELSE IF Len(cs) = 1
    THEN [k \in 1..Len(cs[1].files) |->
             [developer |-> cs[1].author_name, path |-> cs[1].files[k].path,
              additions |-> cs[1].files[k].additions,
              deletions |-> cs[1].files[k].deletions]]
    ELSE LET h == Len(cs) \div 2
         IN  AuthoredFiles(SubSeq(cs, 1, h)) \o AuthoredFiles(SubSeq(cs, h + 1, Len(cs)))

\* The defaultdict file_stats of analyze_code_health after its loops, in
\* insertion order.
HealthFileStats(cs) ==
    LET files == AuthoredFiles(cs)
        first == FirstPositions([k \in 1..Len(files) |-> files[k].path])
    IN  [r \in 1..Len(first) |->
            LET path == files[first[r]].path
                touched == SelectSeq(files, LAMBDA f : f.path = path)
            IN  [path |-> path,
                 commits |-> Len(touched),
                 developers |-> {touched[m].developer : m \in 1..Len(touched)},
                 additions |-> SumSeq([m \in 1..Len(touched) |-> touched[m].additions]),
                 deletions |-> SumSeq([m \in 1..Len(touched) |-> touched[m].deletions])]]

\* RiskLevel with thresholds that are reached rather than exceeded.
RiskLevelInclusive(commit_count, developer_count) ==
    IF commit_count >= RISK_HIGH_COMMITS \/ developer_count >= RISK_HIGH_DEVELOPERS
    THEN "high"
    ELSE IF commit_count >= RISK_MEDIUM_COMMITS \/ developer_count >= RISK_MEDIUM_DEVELOPERS
    THEN "medium"
    ELSE "low"

RiskLevel(commit_count, developer_count) ==
    IF commit_count > RISK_HIGH_COMMITS \/ developer_count > RISK_HIGH_DEVELOPERS
    THEN "high"
    ELSE IF commit_count > RISK_MEDIUM_COMMITS \/ developer_count > RISK_MEDIUM_DEVELOPERS
    THEN "medium"
    ELSE "low"

\* Hotspots over the files whose risk is not "low" only.
HotspotsAboveLow(file_stats) ==
    LET risky == SelectSeq(file_stats,
                           LAMBDA s : RiskLevel(s.commits, Cardinality(s.developers)) # "low")
        order == SortedDescending([k \in 1..Len(risky) |-> risky[k].commits])
        top == Take(order, TopHotspots)
    IN  [r \in 1..Len(top) |->
            LET stats == risky[top[r]]
            IN  [path |-> stats.path,
                 commits |-> stats.commits,
                 developers |-> Cardinality(stats.developers),
                 additions |-> stats.additions,
                 deletions |-> stats.deletions,
                 churn |-> stats.additions + stats.deletions,
                 risk_level |-> RiskLevel(stats.commits, Cardinality(stats.developers)),
                 rank |-> r]]

\* hotspots[:10] after the sort; each entry kept has received its rank.
Hotspots(file_stats) ==
    LET order == SortedDescending([k \in 1..Len(file_stats) |-> file_stats[k].commits])
        top == Take(order, TopHotspots)
    IN  [r \in 1..Len(top) |->
            LET stats == file_stats[top[r]]
            IN  [path |-> stats.path,
                 commits |-> stats.commits,
                 developers |-> Cardinality(stats.developers),
                 additions |-> stats.additions,
                 deletions |-> stats.deletions,
                 churn |-> stats.additions + stats.deletions,
                 risk_level |-> RiskLevel(stats.commits, Cardinality(stats.developers)),
                 rank |-> r]]

\* Stability with a threshold that is reached rather than exceeded.
StabilityAtThreshold(additions, deletions) ==
    IF STABILITY_DEN * Abs(additions - deletions) >= STABILITY_NUM * (additions + deletions)
    THEN "stable" ELSE "unstable"

\* "stable" if net_change / churn > STABILITY_THRESHOLD else "unstable"
Stability(additions, deletions) ==
    IF STABILITY_DEN * Abs(additions - deletions) > STABILITY_NUM * (additions + deletions)
    THEN "stable" ELSE "unstable"

\* high_churn[:5] after the sort.
HighChurnFiles(file_stats) ==
    LET high == SelectSeq(file_stats,
                          LAMBDA s : s.additions + s.deletions > HIGH_CHURN_THRESHOLD)
        order == SortedDescending([k \in 1..Len(high) |-> high[k].additions + high[k].deletions])
        top == Take(order, TopChurn)
    IN  [r \in 1..Len(top) |->
            LET stats == high[top[r]]
            IN  [path |-> stats.path,
                 additions |-> stats.additions,
                 deletions |-> stats.deletions,
                 churn |-> stats.additions + stats.deletions,
                 net_change |-> stats.additions - stats.deletions,
                 stability |-> Stability(stats.additions, stats.deletions)]]

\* "." + path.rsplit(".", 1)[1], or the label of the paths without a dot.
HealthExtension(path) ==
    IF Contains(path, <<".">>) THEN <<".">> \o RSplitOnce(path, <<".">>)[2] ELSE NO_EXTENSION

\* The dict file_types_distribution, as the list of its items, in order.
FileTypesDistribution(file_stats) ==
    LET file_types ==
            CountTypes([k \in 1..Len(file_stats) |-> HealthExtension(file_stats[k].path)])
        total_files == SumSeq([k \in 1..Len(file_types) |-> file_types[k].count])
        common == MostCommon(file_types, MostCommonTypes)
    IN  [r \in 1..Len(common) |->
            [ext |-> common[r].ext,
             count |-> common[r].count,
             percentage |-> Percentage(common[r].count, total_files)]]

EmptyCodeHealth ==
    [hotspots |-> <<>>, high_churn_files |-> <<>>, file_types_distribution |-> <<>>]

analyze_code_health(cs) ==
    LET file_stats == HealthFileStats(cs)
    IN  IF cs = <<>> THEN EmptyCodeHealth
        ELSE [hotspots |-> Hotspots(file_stats),
              high_churn_files |-> HighChurnFiles(file_stats),
              file_types_distribution |-> FileTypesDistribution(file_stats)]

CodeHealthInit ==
    /\ fn = "analyze_code_health"
    /\ raw = <<>>
    /\ target_file = None
    /\ lines = <<>>
    /\ i = 1
    /\ current_commit = NoCommit
    /\ commits \in Histories
    /\ pc = "start"
    /\ result = <<>>
    /\ NoTool

CallAnalyzeCodeHealth ==
    /\ pc = "start"
    /\ fn = "analyze_code_health"
    /\ result' = analyze_code_health(commits)
    /\ pc' = "done"
    /\ UNCHANGED <<fn, raw, target_file, lines, i, current_commit, commits, error, toolVars>>

CodeHealthNext == CallAnalyzeCodeHealth

SpecCodeHealth == CodeHealthInit /\ [][CodeHealthNext]_vars

----------------------------------------------------------------------------
(* The two extension histograms, on the histories whose commits touch at   *)
(* most MaxExts paths each.                                                *)

TypeHistories ==
    UNION {[1..n -> {c \in HistoryCommits : Len(c.files) <= MaxExts}] : n \in 0..MaxCommits}

FileTypesInit ==
    /\ fn \in {"analyze_developer_stats", "analyze_code_health"}
    /\ raw = <<>>
    /\ target_file = None
    /\ lines = <<>>
    /\ i = 1
    /\ current_commit = NoCommit
    /\ commits \in TypeHistories
    /\ pc = "start"
    /\ result = <<>>
    /\ NoTool

FileTypesNext == CallAnalyzeDeveloperStats \/ CallAnalyzeCodeHealth

SpecFileTypes == FileTypesInit /\ [][FileTypesNext]_vars

----------------------------------------------------------------------------
(* compare_developers.  A ranking is held as a list: empty for None, else  *)
(* the one dict.                                                           *)

\* Largest number of developers given to compare_developers.
MaxDevelopers == 3

NoRanking == <<>>

\* The stats of one developer, as the tests of compare_developers give them.
StatsOf(total_commits, total_files_changed, total_additions, total_deletions) ==
    [total_commits |-> total_commits, total_files_changed |-> total_files_changed,
     total_additions |-> total_additions, total_deletions |-> total_deletions]

\* Stats that tie on commits and on additions + deletions, lead on different
\* metrics, or are all zero.
DeveloperStatsValues ==
    {StatsOf(2, 3, 10, 5), StatsOf(2, 1, 5, 10), StatsOf(1, 3, 12, 0), StatsOf(0, 0, 0, 0)}

DeveloperEntries ==
    {[developer |-> d, stats |-> s] : d \in {AuthorA, AuthorB}, s \in DeveloperStatsValues}

DeveloperLists == UNION {[1..n -> DeveloperEntries] : n \in 0..MaxDevelopers}

\* WithActivityScore adding to the activity_score the stats hold already.
WithActivityScoreAdded(dev_stat) ==
    [dev_stat EXCEPT !.stats =
        [key \in DOMAIN dev_stat.stats \cup {"activity_score"} |->
            IF key = "activity_score"
            THEN (IF "activity_score" \in DOMAIN dev_stat.stats
                  THEN dev_stat.stats.activity_score ELSE 0)
                     + dev_stat.stats.total_additions + dev_stat.stats.total_deletions
            ELSE dev_stat.stats[key]]]

\* stats["activity_score"] = stats["total_additions"] + stats["total_deletions"]
WithActivityScore(dev_stat) ==
    [dev_stat EXCEPT !.stats =
        [key \in DOMAIN dev_stat.stats \cup {"activity_score"} |->
            IF key = "activity_score"
            THEN dev_stat.stats.total_additions + dev_stat.stats.total_deletions
            ELSE dev_stat.stats[key]]]

\* max(...) with the last of the largest items returned.
LastMax(keys) ==
    CHOOSE k \in 1..Len(keys) :
        /\ \A m \in 1..Len(keys) : keys[m] <= keys[k]
        /\ \A m \in (k + 1)..Len(keys) : keys[m] < keys[k]

\* max(developer_stats, key=...): the position of the first of the largest items.
FirstMax(keys) ==
    CHOOSE k \in 1..Len(keys) :
        /\ \A m \in 1..Len(keys) : keys[m] <= keys[k]
        /\ \A m \in 1..(k - 1) : keys[m] < keys[k]

\* One entry of rankings: the developer with the largest stats[metric].
Ranking(scored, metric) ==
    LET best == scored[FirstMax([k \in 1..Len(scored) |-> scored[k].stats[metric]])]
    IN  <<[developer |-> best.developer, value |-> best.stats[metric]]>>

\* SumMetric with the first developer left out.
SumMetricSkipsFirst(scored, metric) ==
    SumSeq([k \in 1..(Len(scored) - 1) |-> scored[k + 1].stats[metric]])

\* sum(d["stats"][metric] for d in developer_stats)
SumMetric(scored, metric) ==
    SumSeq([k \in 1..Len(scored) |-> scored[k].stats[metric]])

\* EmptyComparison with a most active developer of no name.
ComparisonOfNobody ==
    [rankings |-> [most_commits |-> NoRanking, most_files_changed |-> NoRanking,
                   most_additions |-> NoRanking, most_deletions |-> NoRanking,
                   most_active |-> <<[developer |-> None, value |-> 0]>>],
     totals |-> [total_commits |-> 0, total_files_changed |-> 0,
                 total_additions |-> 0, total_deletions |-> 0]]

EmptyComparison ==
    [rankings |-> [most_commits |-> NoRanking, most_files_changed |-> NoRanking,
                   most_additions |-> NoRanking, most_deletions |-> NoRanking,
                   most_active |-> NoRanking],
     totals |-> [total_commits |-> 0, total_files_changed |-> 0,
                 total_additions |-> 0, total_deletions |-> 0]]

\* developer_stats after the first loop: every stats dict has its activity_score.
Scored(ds) == [k \in 1..Len(ds) |-> WithActivityScore(ds[k])]

compare_developers(ds) ==
    LET scored == Scored(ds)
    IN  IF ds = <<>> THEN EmptyComparison
        ELSE [rankings |->
                  [most_commits |-> Ranking(scored, "total_commits"),
                   most_files_changed |-> Ranking(scored, "total_files_changed"),
                   most_additions |-> Ranking(scored, "total_additions"),
                   most_deletions |-> Ranking(scored, "total_deletions"),
                   most_active |-> Ranking(scored, "activity_score")],
              totals |->
                  [total_commits |-> SumMetric(scored, "total_commits"),
                   total_files_changed |-> SumMetric(scored, "total_files_changed"),
                   total_additions |-> SumMetric(scored, "total_additions"),
                   total_deletions |-> SumMetric(scored, "total_deletions")]]

CompareInit ==
    /\ fn = "compare_developers"
    /\ raw = <<>>
    /\ target_file = None
    /\ lines = <<>>
    /\ i = 1
    /\ current_commit = NoCommit
    /\ commits = <<>>
    /\ pc = "start"
    /\ result = <<>>
    /\ error = ""
    /\ repo_path = ""
    /\ authors = <<>>
    /\ developer_stats \in DeveloperLists
    /\ git_calls = <<>>
    /\ NoServer

\* The call returns its comparison and leaves activity_score in the stats dicts of
\* the list it was given.
CallCompareDevelopers ==
    /\ pc = "start"
    /\ fn = "compare_developers"
    /\ result' = compare_developers(developer_stats)
    /\ developer_stats' = Scored(developer_stats)
    /\ pc' = "done"
    /\ UNCHANGED <<fn, raw, target_file, lines, i, current_commit, commits, error,
                   repo_path, authors, git_calls, serverVars>>

CompareNext == CallCompareDevelopers

SpecCompare == CompareInit /\ [][CompareNext]_vars

----------------------------------------------------------------------------
(* parse_commit_history as one call, for the tools that call it.           *)

\* The loop of parse_commit_history over the lines ls, current the open commit
\* and done the commits closed so far; raised = TRUE is ValueError.
RECURSIVE CommitLoop(_, _, _)
CommitLoop(ls, current, done) ==
    IF ls = <<>>
    THEN [raised |-> FALSE,
          value |-> IF current = NoCommit THEN done
                    ELSE Append(done, CloseCommit(current[1]))]
    ELSE LET line == Strip(Head(ls))
             flushed == IF current # NoCommit THEN Append(done, CloseCommit(current[1]))
                        ELSE done
             fields == Split(line, <<"\t">>, -1)
             additions == NumstatField(fields[1])
             deletions == NumstatField(fields[2])
         IN  IF StartsWith(line, SENTINEL)
             THEN CommitLoop(Tail(ls), OpenCommit(Split(line, <<"|">>, 5)), flushed)
             ELSE IF current = NoCommit \/ line = <<>> \/ Len(fields) # NumstatFields
             THEN CommitLoop(Tail(ls), current, done)
             ELSE IF ~additions.ok \/ ~deletions.ok
             THEN [raised |-> TRUE, value |-> <<>>]
             ELSE CommitLoop(Tail(ls),
                             <<[current[1] EXCEPT !.files =
                                  Append(@, [path |-> Strip(fields[3]),
                                             additions |-> additions.val,
                                             deletions |-> deletions.val])]>>,
                             done)

parse_commit_history(text) ==
    IF text = <<>> THEN [raised |-> FALSE, value |-> <<>>]
    ELSE CommitLoop(SplitLines(text), NoCommit, <<>>)

----------------------------------------------------------------------------
(* The tool compare_developer_stats: ensure_is_git_repo, the check of      *)
(* authors, build_comparison_json.  A step ends where the coroutine awaits *)
(* a git command or ends.                                                  *)

\* Largest number of authors of a request.
MaxAuthors == 11

\* Largest length of the requests that name their authors freely.
MaxFreeAuthors == 2

\* The fewest and the most authors compare_developer_stats accepts.
MinCompared == 2

MaxCompared == 10

\* The file system: "/f" is no directory, "/d" a directory outside any
\* repository, "/r" a repository.
RepoPaths == {"", "/f", "/d", "/r"}

IsDir(path) == path \in {"/d", "/r"}

IsRepository(path) == path = "/r"

AuthorC == <<"c">>

\* What git log --author prints in the repository: a commit with a file for "a",
\* nothing for "b", a commit whose numstat line holds no number for "c".
HistoryOf(author) ==
    IF author = AuthorA THEN JoinLines(<<LineCommitH, LineNumstat>>)
    ELSE IF author = AuthorB THEN <<>>
    ELSE JoinLines(<<LineCommitH, LineNotNumber>>)

\* The requests: every list of at most MaxFreeAuthors of the three authors, and
\* the lists "a", "b", "a", ... of up to MaxAuthors authors.
AuthorLists ==
    UNION {[1..n -> {AuthorA, AuthorB, AuthorC}] : n \in 0..MaxFreeAuthors}
    \cup {[k \in 1..n |-> IF k % 2 = 1 THEN AuthorA ELSE AuthorB] : n \in 0..MaxAuthors}

\* The exceptions of run_git once the command is started.
GitFailures == {"GitCommandError", "GitTimeoutError"}

GitCall(command, author) == [command |-> command, author |-> author]

CompareToolInit ==
    /\ fn = "compare_developer_stats"
    /\ raw = <<>>
    /\ target_file = None
    /\ lines = <<>>
    /\ i = 1
    /\ current_commit = NoCommit
    /\ commits = <<>>
    /\ pc = "start"
    /\ result = <<>>
    /\ error = ""
    /\ repo_path \in RepoPaths
    /\ authors \in AuthorLists
    /\ developer_stats = <<>>
    /\ git_calls = <<>>
    /\ NoServer

\* ensure_is_git_repo up to its await: the checks of repo_path, then run_git
\* finds git and starts "git rev-parse --git-dir", or git is not in PATH.
EnsureIsGitRepo ==
    /\ pc = "start"
    /\ fn = "compare_developer_stats"
    /\ \E git_found \in BOOLEAN :
          IF repo_path = ""
          THEN pc' = "raised" /\ error' = "ValueError" /\ UNCHANGED git_calls
          ELSE IF ~IsDir(repo_path)
          THEN pc' = "raised" /\ error' = "GitRepositoryError" /\ UNCHANGED git_calls
          ELSE IF ~git_found
          THEN pc' = "raised" /\ error' = "GitNotFoundError" /\ UNCHANGED git_calls
          ELSE /\ git_calls' = Append(git_calls, GitCall("rev-parse", None))
               /\ pc' = "await rev-parse"
               /\ error' = error
    /\ UNCHANGED <<fn, raw, target_file, lines, i, current_commit, commits, result,
                   repo_path, authors, developer_stats, serverVars>>

\* "git rev-parse --git-dir" ends: with exit status 0 in a repository unless it
\* times out, with a failure elsewhere.
RevParseReturns ==
    /\ pc = "await rev-parse"
    /\ \E outcome \in {"ok"} \cup GitFailures :
          /\ outcome = "ok" => IsRepository(repo_path)
          /\ IF outcome = "ok"
             THEN pc' = "ensured" /\ error' = error
             ELSE pc' = "raised" /\ error' = outcome
    /\ UNCHANGED <<fn, raw, target_file, lines, i, current_commit, commits, result,
                   repo_path, authors, developer_stats, git_calls, serverVars>>

\* The two checks of authors, after ensure_is_git_repo has returned.
CheckAuthors ==
    /\ pc = "ensured"
    /\ fn = "compare_developer_stats"
    /\ IF Len(authors) < MinCompared \/ Len(authors) > MaxCompared
       THEN pc' = "raised" /\ error' = "ValueError"
       ELSE pc' = "authors" /\ error' = error
    /\ UNCHANGED <<fn, raw, target_file, lines, i, current_commit, commits, result,
                   repo_path, authors, developer_stats, git_calls, serverVars>>

\* build_comparison_json, the head of its loop: get_commit_history_raw starts
\* "git log" for the next author, or git is not in PATH.
RequestHistory ==
    /\ pc = "authors"
    /\ i <= Len(authors)
    /\ \E git_found \in BOOLEAN :
          IF ~git_found
          THEN pc' = "raised" /\ error' = "GitNotFoundError" /\ UNCHANGED git_calls
          ELSE /\ git_calls' = Append(git_calls, GitCall("log", authors[i]))
               /\ pc' = "await log"
               /\ error' = error
    /\ UNCHANGED <<fn, raw, target_file, lines, i, current_commit, commits, result,
                   repo_path, authors, developer_stats, serverVars>>

\* "git log" ends: on a failure the exception leaves the tool; otherwise its
\* output is parsed and analysed and the author's entry is appended.
HistoryReturns ==
    /\ pc = "await log"
    /\ \E outcome \in {"ok"} \cup GitFailures :
          LET parsed == parse_commit_history(HistoryOf(authors[i]))
          IN  IF outcome # "ok"
              THEN /\ pc' = "raised" /\ error' = outcome
                   /\ UNCHANGED <<raw, commits, developer_stats, i>>
              ELSE IF parsed.raised
              THEN /\ pc' = "raised" /\ error' = "ValueError"
                   /\ raw' = HistoryOf(authors[i])
                   /\ UNCHANGED <<commits, developer_stats, i>>
              ELSE /\ raw' = HistoryOf(authors[i])
                   /\ commits' = parsed.value
                   /\ developer_stats' =
                          Append(developer_stats,
                                 [developer |-> authors[i],
                                  stats |-> analyze_developer_stats(parsed.value)])
                   /\ i' = i + 1
                   /\ pc' = "authors"
                   /\ error' = error
    /\ UNCHANGED <<fn, target_file, lines, current_commit, result, repo_path, authors,
                   git_calls, serverVars>>

\* ReturnComparison with the developers who have commits only.
ReturnComparisonOfActive ==
    /\ pc = "authors"
    /\ i > Len(authors)
    /\ developer_stats' = Scored(developer_stats)
    /\ result' = [repo |-> [path |-> repo_path],
                  time_range |-> [since |-> None, until |-> None],
                  developers |-> SelectSeq(Scored(developer_stats),
                                           LAMBDA d : d.stats.total_commits > 0),
                  comparison |-> compare_developers(developer_stats)]
    /\ pc' = "done"
    /\ UNCHANGED <<fn, raw, target_file, lines, i, current_commit, commits, error,
                   repo_path, authors, git_calls, serverVars>>

\* After the loop: compare_developers leaves activity_score in the entries, and
\* the response is returned.
ReturnComparison ==
    /\ pc = "authors"
    /\ i > Len(authors)
    /\ developer_stats' = Scored(developer_stats)
    /\ result' = [repo |-> [path |-> repo_path],
                  time_range |-> [since |-> None, until |-> None],
                  developers |-> Scored(developer_stats),
                  comparison |-> compare_developers(developer_stats)]
    /\ pc' = "done"
    /\ UNCHANGED <<fn, raw, target_file, lines, i, current_commit, commits, error,
                   repo_path, authors, git_calls, serverVars>>

CompareToolNext ==
    \/ EnsureIsGitRepo
    \/ RevParseReturns
    \/ CheckAuthors
    \/ RequestHistory
    \/ HistoryReturns
    \/ ReturnComparison

SpecCompareTool == CompareToolInit /\ [][CompareToolNext]_vars

----------------------------------------------------------------------------
(* analyze_executive_summary.  avg_commits_per_day is held in tenths.      *)

\* Largest number of commits of a history given to analyze_executive_summary.
MaxDated == 4

\* The decimal number the characters s[a..b] spell, ok only if all are digits.
Number(s, a, b) ==
    LET d == SubSeq(s, a, b)
    IN  [ok |-> \A k \in 1..Len(d) : d[k] \in Digits,
         val |-> IF \A k \in 1..Len(d) : d[k] \in Digits THEN DecimalValue(d) ELSE 0]

IsLeap(y) == y % 4 = 0 /\ (y % 100 # 0 \/ y % 400 = 0)

DaysInMonth(y, m) ==
    IF m = 2 THEN (IF IsLeap(y) THEN 29 ELSE 28)
    ELSE IF m \in {4, 6, 9, 11} THEN 30 ELSE 31

\* The number of the day y-m-d, counted from 1970-01-01 (date.toordinal up to a
\* constant).
DayNumber(y, m, d) ==
    LET yy == IF m <= 2 THEN y - 1 ELSE y
        era == yy \div 400
        yoe == yy - era * 400
        doy == ((153 * (IF m > 2 THEN m - 3 ELSE m + 9) + 2) \div 5) + d - 1
        doe == yoe * 365 + (yoe \div 4) - (yoe \div 100) + doy
    IN  era * 146097 + doe - 719468

\* datetime.fromisoformat(s) for the two forms the dates below take,
\* "YYYY-MM-DD" and "YYYY-MM-DD HH:MM:SS" (any one character may stand between
\* the date and the time); ok = FALSE is ValueError.  day is the
\* number of the day, second the second of that day.
FromIsoFormat(s) ==
    LET y == Number(s, 1, 4)
        m == Number(s, 6, 7)
        d == Number(s, 9, 10)
        hh == Number(s, 12, 13)
        mm == Number(s, 15, 16)
        ss == Number(s, 18, 19)
        date_ok ==
            /\ Len(s) \in {10, 19}
            /\ s[5] = "-" /\ s[8] = "-"
            /\ y.ok /\ m.ok /\ d.ok
            /\ y.val >= 1 /\ m.val \in 1..12 /\ d.val >= 1
            /\ d.val <= DaysInMonth(y.val, m.val)
        time_ok ==
            /\ s[14] = ":" /\ s[17] = ":"
            /\ hh.ok /\ mm.ok /\ ss.ok
            /\ hh.val <= 23 /\ mm.val <= 59 /\ ss.val <= 59
    IN  IF ~date_ok THEN [ok |-> FALSE, day |-> 0, second |-> 0]
        ELSE IF Len(s) = 10
        THEN [ok |-> TRUE, day |-> DayNumber(y.val, m.val, d.val), second |-> 0]
        ELSE IF ~time_ok THEN [ok |-> FALSE, day |-> 0, second |-> 0]
        ELSE [ok |-> TRUE,
              day |-> DayNumber(y.val, m.val, d.val),
              second |-> 3600 * hh.val + 60 * mm.val + ss.val]

\* "YYYY-MM-DD HH:MM:SS +ZZZZ", the form of %ai
AuthorDate(ymd, hms, zone) == ymd \o <<" ">> \o hms \o <<" ">> \o zone

DateNewYearsEve ==
    AuthorDate(<<"2", "0", "2", "4", "-", "1", "2", "-", "3", "1">>,
               <<"2", "3", ":", "0", "0", ":", "0", "0">>, <<"+", "0", "0", "0", "0">>)

DateJan1 ==
    AuthorDate(<<"2", "0", "2", "5", "-", "0", "1", "-", "0", "1">>,
               <<"1", "0", ":", "0", "0", ":", "0", "0">>, <<"+", "0", "0", "0", "0">>)

\* Less than 24 hours after DateJan1.
DateJan2 ==
    AuthorDate(<<"2", "0", "2", "5", "-", "0", "1", "-", "0", "2">>,
               <<"0", "9", ":", "0", "0", ":", "0", "0">>, <<"+", "0", "2", "0", "0">>)

DateJan4 ==
    AuthorDate(<<"2", "0", "2", "5", "-", "0", "1", "-", "0", "4">>,
               <<"1", "0", ":", "0", "0", ":", "0", "0">>, <<"+", "0", "0", "0", "0">>)

\* A day that no month has.
DateFeb30 ==
    AuthorDate(<<"2", "0", "2", "5", "-", "0", "2", "-", "3", "0">>,
               <<"1", "0", ":", "0", "0", ":", "0", "0">>, <<"+", "0", "0", "0", "0">>)

\* "d": the date field of LineCommitH
DateNoDate == <<"d">>

DatedCommits ==
    {CommitOf(AuthorA, DateJan1, <<FileChange(PathNoExt, 3, 1)>>),
     CommitOf(AuthorB, DateJan2, <<>>),
     CommitOf(AuthorA, DateJan4, <<FileChange(PathNoExt, 80, 30),
                                  FileChange(PathTrailingDot, 1, 0)>>),
     CommitOf(AuthorB, DateNewYearsEve, <<FileChange(PathHidden, 0, 7)>>),
     CommitOf(AuthorA, DateNoDate, <<>>),
     CommitOf(AuthorB, DateFeb30, <<FileChange(PathNoExt, 1, 1)>>)}

DatedHistories == UNION {[1..n -> DatedCommits] : n \in 0..MaxDated}

EmptySummary ==
    [total_commits |-> 0, total_developers |-> 0, total_files_changed |-> 0,
     total_additions |-> 0, total_deletions |-> 0, net_lines |-> 0,
     avg_commits_per_day |-> 0]

\* The try block: round(len(commits) / days, 1) in tenths, 0 when a date of
\* commits[0] or commits[-1] does not parse.  delta_days is (latest - earliest).days,
\* the difference in days rounded down.
AvgCommitsPerDay(cs) ==
    LET latest == FromIsoFormat(RSplitOnce(cs[1].date, <<" ">>)[1])
        earliest == FromIsoFormat(RSplitOnce(cs[Len(cs)].date, <<" ">>)[1])
        delta_days == (latest.day - earliest.day) + ((latest.second - earliest.second) \div 86400)
        days == IF delta_days + 1 > 1 THEN delta_days + 1 ELSE 1
    IN  IF ~latest.ok \/ ~earliest.ok THEN 0
        ELSE RoundHalfEven(10 * Len(cs), days)

analyze_executive_summary(cs) ==
    LET files == AllFiles(cs)
        total_additions == SumSeq([k \in 1..Len(files) |-> files[k].additions])
        total_deletions == SumSeq([k \in 1..Len(files) |-> files[k].deletions])
    IN  IF cs = <<>> THEN EmptySummary
        ELSE [total_commits |-> Len(cs),
              total_developers |-> Cardinality({cs[k].author_name : k \in 1..Len(cs)}),
              total_files_changed |-> Cardinality({files[k].path : k \in 1..Len(files)}),
              total_additions |-> total_additions,
              total_deletions |-> total_deletions,
              net_lines |-> total_additions - total_deletions,
              avg_commits_per_day |-> AvgCommitsPerDay(cs)]

SummaryInit ==
    /\ fn = "analyze_executive_summary"
    /\ raw = <<>>
    /\ target_file = None
    /\ lines = <<>>
    /\ i = 1
    /\ current_commit = NoCommit
    /\ commits \in DatedHistories
    /\ pc = "start"
    /\ result = <<>>
    /\ NoTool

CallAnalyzeExecutiveSummary ==
    /\ pc = "start"
    /\ fn = "analyze_executive_summary"
    /\ result' = analyze_executive_summary(commits)
    /\ pc' = "done"
    /\ UNCHANGED <<fn, raw, target_file, lines, i, current_commit, commits, error, toolVars>>

SummaryNext == CallAnalyzeExecutiveSummary

SpecSummary == SummaryInit /\ [][SummaryNext]_vars

----------------------------------------------------------------------------
(* analyze_team_performance.                                               *)

LOW_ACTIVITY_PERCENTAGE == 5
LOW_ACTIVITY_COMMITS == 3
TopContributors == 5

\* Longest free part at the head of a team history.
MaxHead == 3

\* Number of developers who answer the roll call.
RollCallSize == 6

\* The developer named by the digit k.
Developer(k) == <<DigitChars[k + 1]>>

\* The commits a head is drawn from.
HeadCommits ==
    {CommitOf(Developer(7), DATE, <<FileChange(PathNoExt, 3, 1)>>),
     CommitOf(Developer(6), DATE, <<FileChange(PathNoExt, 80, 30),
                                    FileChange(PathTrailingDot, 1, 0)>>),
     CommitOf(Developer(3), DATE, <<>>),
     CommitOf(Developer(1), DATE, <<FileChange(PathHidden, 0, 7),
                                    FileChange(PathHidden, 2, 0)>>)}

\* One commit by each of the developers 1..RollCallSize, in that order.
RollCall == [k \in 1..RollCallSize |-> CommitOf(Developer(k), DATE, <<>>)]

\* n commits in a row by developer 2.
Block(n) == [k \in 1..n |-> CommitOf(Developer(2), DATE, <<FileChange(PathNoExt, 1, 0)>>)]

\* The number of commits of which c commits are exactly LOW_ACTIVITY_PERCENTAGE percent.
ShareTurn(c) == (100 * c) \div LOW_ACTIVITY_PERCENTAGE

\* The block lengths that bring a history to within one commit of a turn of
\* the share of a developer with at most LOW_ACTIVITY_COMMITS commits.
BlockSizes ==
    {n \in 1..ShareTurn(LOW_ACTIVITY_COMMITS) :
        \E c \in 1..LOW_ACTIVITY_COMMITS, k \in 0..(MaxHead + RollCallSize) :
            n + k \in {ShareTurn(c), ShareTurn(c) + 1}}

TeamHeads == UNION {[1..n -> HeadCommits] : n \in 0..MaxHead}

TeamTails ==
    {<<>>, RollCall} \cup {Block(n) : n \in BlockSizes}
        \cup {RollCall \o Block(n) : n \in BlockSizes}

TeamHistories == {h \o t : h \in TeamHeads, t \in TeamTails}

EmptyTeamPerformance ==
    [top_contributors |-> <<>>, developer_count |-> 0, active_developers |-> 0,
     alerts |-> <<>>]

\* The defaultdict dev_stats after the loops, in insertion order: one entry for
\* each author_name, files_touched being len(stats["files"]).
DevStats(cs) ==
    LET first == FirstPositions([k \in 1..Len(cs) |-> cs[k].author_name])
        files == AuthoredFiles(cs)
    IN  [r \in 1..Len(first) |->
            LET dev_name == cs[first[r]].author_name
                touched == SelectSeq(files, LAMBDA f : f.developer = dev_name)
            IN  [developer |-> dev_name,
                 commits |-> Cardinality({k \in 1..Len(cs) : cs[k].author_name = dev_name}),
                 additions |-> SumSeq([m \in 1..Len(touched) |-> touched[m].additions]),
                 deletions |-> SumSeq([m \in 1..Len(touched) |-> touched[m].deletions]),
                 files_touched |-> Cardinality({touched[m].path : m \in 1..Len(touched)})]]

\* One entry of the list contributors: the entry stats of dev_stats of a history
\* of total commits at rank r; percentage in tenths of a percent.
Contributor(stats, total, r) ==
    [developer |-> stats.developer,
     commits |-> stats.commits,
     percentage |-> Percentage(stats.commits, total),
     additions |-> stats.additions,
     deletions |-> stats.deletions,
     files_touched |-> stats.files_touched,
     activity_score |-> stats.additions + stats.deletions,
     rank |-> r]

\* The list contributors ranked without the sort.
ContributorsInDictOrder(cs) ==
    LET dev_stats == DevStats(cs)
    IN  [r \in 1..Len(dev_stats) |-> Contributor(dev_stats[r], Len(cs), r)]

\* The list contributors after the sort and the ranking.
Contributors(cs) ==
    LET dev_stats == DevStats(cs)
        order == SortedDescending([k \in 1..Len(dev_stats) |-> dev_stats[k].commits])
    IN  [r \in 1..Len(dev_stats) |-> Contributor(dev_stats[order[r]], Len(cs), r)]

\* f"Only {commits} commits - low activity"
LowActivityMessage(n) ==
    <<"O", "n", "l", "y", " ">> \o Decimal(n)
        \o <<" ", "c", "o", "m", "m", "i", "t", "s", " ", "-", " ",
             "l", "o", "w", " ", "a", "c", "t", "i", "v", "i", "t", "y">>

\* The test of the alerts loop on the top contributors only.
IsLowActivityTopOnly(contrib) ==
    /\ contrib.rank <= TopContributors
    /\ contrib.percentage < 10 * LOW_ACTIVITY_PERCENTAGE
    /\ contrib.commits < LOW_ACTIVITY_COMMITS

\* The test of the alerts loop; percentage in tenths of a percent.
IsLowActivity(contrib) ==
    /\ contrib.percentage < 10 * LOW_ACTIVITY_PERCENTAGE
    /\ contrib.commits < LOW_ACTIVITY_COMMITS

Alerts(contributors) ==
    LET low == SelectSeq(contributors, IsLowActivity)
    IN  [k \in 1..Len(low) |->
            [type |-> "low_activity",
             developer |-> low[k].developer,
             message |-> LowActivityMessage(low[k].commits),
             severity |-> "warning"]]

analyze_team_performance(cs) ==
    LET contributors == Contributors(cs)
    IN  IF cs = <<>> THEN EmptyTeamPerformance
        ELSE [top_contributors |-> Take(contributors, TopContributors),
              developer_count |-> Len(contributors),
              active_developers |-> Len(contributors),
              alerts |-> Alerts(contributors)]

TeamInit ==
    /\ fn = "analyze_team_performance"
    /\ raw = <<>>
    /\ target_file = None
    /\ lines = <<>>
    /\ i = 1
    /\ current_commit = NoCommit
    /\ commits \in TeamHistories
    /\ pc = "start"
    /\ result = <<>>
    /\ NoTool

CallAnalyzeTeamPerformance ==
    /\ pc = "start"
    /\ fn = "analyze_team_performance"
    /\ result' = analyze_team_performance(commits)
    /\ pc' = "done"
    /\ UNCHANGED <<fn, raw, target_file, lines, i, current_commit, commits, error, toolVars>>

TeamNext == CallAnalyzeTeamPerformance

SpecTeam == TeamInit /\ [][TeamNext]_vars

----------------------------------------------------------------------------
(* The parsers and the aggregators on their shortest inputs, the empty one  *)
(* among them.                                                             *)

\* Most lines of a short text, most entries of a short list.
MaxShort == 1

ShortTexts(Lines) ==
    {JoinLines(ls) : ls \in UNION {[1..n -> Lines] : n \in 0..MaxShort}}

ShortLists(Entries) == UNION {[1..n -> Entries] : n \in 0..MaxShort}

Parsers ==
    {"parse_commit_history", "parse_file_history", "parse_branches",
     "parse_fetch_output"}

Aggregators ==
    {"analyze_developer_stats", "compare_developers", "analyze_executive_summary",
     "analyze_team_performance", "analyze_code_health"}

\* The texts a parser is called on, the commits or the stats an aggregator is
\* called on.
ShortInputs(f) ==
    IF f \in {"parse_commit_history", "parse_file_history"} THEN ShortTexts(LogLines)
    ELSE IF f = "parse_branches" THEN ShortTexts(BranchLines)
    ELSE IF f = "parse_fetch_output" THEN ShortTexts(FetchLines)
    ELSE IF f = "compare_developers" THEN ShortLists(DeveloperEntries)
    ELSE IF f = "analyze_executive_summary" THEN ShortLists(DatedCommits)
    ELSE IF f = "analyze_team_performance" THEN ShortLists(HeadCommits)
    ELSE ShortLists(HistoryCommits)

ShortInit ==
    /\ fn \in Parsers \cup Aggregators
    /\ \E input \in ShortInputs(fn) :
           /\ raw = IF fn \in Parsers THEN input ELSE <<>>
           /\ commits = IF fn \in Aggregators \ {"compare_developers"} THEN input ELSE <<>>
           /\ developer_stats = IF fn = "compare_developers" THEN input ELSE <<>>
    /\ target_file \in IF fn \in {"parse_commit_history", "parse_file_history"}
                       THEN TargetFiles ELSE {None}
    /\ lines = <<>>
    /\ i = 1
    /\ current_commit = NoCommit
    /\ pc = "start"
    /\ result = <<>>
    /\ error = ""
    /\ repo_path = ""
    /\ authors = <<>>
    /\ git_calls = <<>>
    /\ NoServer

ShortNext ==
    \/ LogNext
    \/ BranchNext
    \/ FetchNext
    \/ DeveloperStatsNext
    \/ CompareNext
    \/ SummaryNext
    \/ TeamNext
    \/ CodeHealthNext

SpecShort == ShortInit /\ [][ShortNext]_vars

----------------------------------------------------------------------------
(* analyze_code_health on histories that reach its thresholds.             *)

\* Most commits that touch one file.
MaxTouches == 17

\* Most developers who take turns at one file.
MaxTeam == 7

\* Most files of free churn in one commit.
MaxChurned == 3

\* n commits that touch "x", the first m of them ".g" too, written in turn by
\* d developers.
RiskHistory(n, d, m) ==
    [k \in 1..n |->
        CommitOf(Developer(((k - 1) % d) + 1), DATE,
                 IF k <= m
                 THEN <<FileChange(PathNoExt, 1, 0), FileChange(PathHidden, 0, 1)>>
                 ELSE <<FileChange(PathNoExt, 1, 0)>>)]

\* One commit that touches MaxExts numbered paths.
BulkCommit == CommitOf(AuthorA, DATE, BulkFiles(MaxExts))

\* The histories of "x" and ".g" alone, after a bulk commit, before a bulk commit.
RiskHistories ==
    {before \o RiskHistory(n, d, m) \o after :
        n \in 1..MaxTouches, d \in 1..MaxTeam, m \in 0..MaxTouches,
        before \in {<<>>, <<BulkCommit>>}, after \in {<<>>, <<BulkCommit>>}}

\* Additions and deletions on both sides of the churn threshold and of the
\* stability threshold.
ChurnChanges ==
    {<<HIGH_CHURN_THRESHOLD \div 2, HIGH_CHURN_THRESHOLD \div 2>>,
     <<(HIGH_CHURN_THRESHOLD \div 2) + 1, HIGH_CHURN_THRESHOLD \div 2>>,
     <<(STABILITY_DEN + STABILITY_NUM) * STABILITY_DEN,
       (STABILITY_DEN - STABILITY_NUM) * STABILITY_DEN>>,
     <<(STABILITY_DEN + STABILITY_NUM) * STABILITY_DEN + 1,
       (STABILITY_DEN - STABILITY_NUM) * STABILITY_DEN>>,
     <<(STABILITY_DEN - STABILITY_NUM) * STABILITY_DEN,
       (STABILITY_DEN + STABILITY_NUM) * STABILITY_DEN + 1>>,
     <<0, HIGH_CHURN_THRESHOLD + 1>>,
     <<2 * HIGH_CHURN_THRESHOLD, 2 * HIGH_CHURN_THRESHOLD>>}

\* The files of a commit whose k-th file is the k-th numbered path, changed as
\* changes[k] says.
ChurnedFiles(changes) ==
    [k \in 1..Len(changes) |-> FileChange(NumberedPath(k), changes[k][1], changes[k][2])]

\* Four more files above the churn threshold, two of them of equal churn.
ChurnTail ==
    <<FileChange(PathNoExt, HIGH_CHURN_THRESHOLD, 10),
      FileChange(PathHidden, 10, HIGH_CHURN_THRESHOLD + 10),
      FileChange(PathTrailingDot, HIGH_CHURN_THRESHOLD, 10),
      FileChange(PathTwoDots, 3 * HIGH_CHURN_THRESHOLD, 0)>>

\* A commit of files of free churn, with or without the tail, with or without a
\* second commit that adds one line to the first numbered path.
ChurnHistories ==
    {<<CommitOf(AuthorA, DATE, ChurnedFiles(changes) \o tail)>> \o second :
        changes \in UNION {[1..n -> ChurnChanges] : n \in 1..MaxChurned},
        tail \in {<<>>, ChurnTail},
        second \in {<<>>, <<CommitOf(AuthorB, DATE, <<FileChange(NumberedPath(1), 1, 0)>>)>>}}

HealthCasesInit ==
    /\ fn = "analyze_code_health"
    /\ raw = <<>>
    /\ target_file = None
    /\ lines = <<>>
    /\ i = 1
    /\ current_commit = NoCommit
    /\ commits \in RiskHistories \cup ChurnHistories
    /\ pc = "start"
    /\ result = <<>>
    /\ NoTool

HealthCasesNext == CallAnalyzeCodeHealth

SpecHealthCases == HealthCasesInit /\ [][HealthCasesNext]_vars

----------------------------------------------------------------------------
(* An aggregator called a second time on the value it was called on.       *)

\* The value the aggregator f returns for the commits cs or the list ds.
Aggregate(f, cs, ds) ==
    IF f = "analyze_developer_stats" THEN analyze_developer_stats(cs)
    ELSE IF f = "compare_developers" THEN compare_developers(ds)
    ELSE IF f = "analyze_executive_summary" THEN analyze_executive_summary(cs)
    ELSE IF f = "analyze_team_performance" THEN analyze_team_performance(cs)
    ELSE analyze_code_health(cs)

\* The values an aggregator is called on twice.
RepeatedInputs(f) ==
    IF f = "compare_developers" THEN DeveloperLists
    ELSE IF f = "analyze_executive_summary" THEN DatedHistories
    ELSE IF f = "analyze_team_performance" THEN {h \o t : h \in TeamHeads, t \in {<<>>, RollCall}}
    ELSE TypeHistories

RepeatInit ==
    /\ fn \in Aggregators
    /\ \E input \in RepeatedInputs(fn) :
           /\ commits = IF fn = "compare_developers" THEN <<>> ELSE input
           /\ developer_stats = IF fn = "compare_developers" THEN input ELSE <<>>
    /\ raw = <<>>
    /\ target_file = None
    /\ lines = <<>>
    /\ i = 1
    /\ current_commit = NoCommit
    /\ pc = "start"
    /\ result = <<>>
    /\ error = ""
    /\ repo_path = ""
    /\ authors = <<>>
    /\ git_calls = <<>>
    /\ NoServer

\* The second call: on the same list object, which holds what the first call
\* left in it.
CallAgain ==
    /\ pc = "done"
    /\ fn \in Aggregators
    /\ result' = Aggregate(fn, commits, developer_stats)
    /\ developer_stats' = IF fn = "compare_developers" THEN Scored(developer_stats)
                          ELSE developer_stats
    /\ pc' = "again"
    /\ UNCHANGED <<fn, raw, target_file, lines, i, current_commit, commits, error,
                   repo_path, authors, git_calls, serverVars>>

RepeatNext ==
    \/ CallAnalyzeDeveloperStats
    \/ CallCompareDevelopers
    \/ CallAnalyzeExecutiveSummary
    \/ CallAnalyzeTeamPerformance
    \/ CallAnalyzeCodeHealth
    \/ CallAgain

SpecRepeat == RepeatInit /\ [][RepeatNext]_vars

----------------------------------------------------------------------------
(* The repository the tools are called on, and what git does and prints    *)
(* there.  The history of the repository at "/r" is linear, so a branch is *)
(* the number of its commits; every commit is by "a" and touches "f".      *)

\* Largest number of commits of the branch "m" of the remote.
MaxRemote == 2

\* The local branches, in the order git lists them.
BranchOrder == <<<<"m">>, <<"d", "e", "v">>>>

LocalBranches == {BranchOrder[k] : k \in 1..Len(BranchOrder)}

\* "o/B": the remote-tracking branch of B
Upstream(b) == <<"o", "/">> \o b

\* The repository before any tool is called: every local and remote-tracking
\* branch holds the first commit, the remote may hold more on "m", and either
\* branch is checked out.
Repositories ==
    {[branches |-> [b \in LocalBranches |-> 1],
      head |-> h,
      tracking |-> [b \in LocalBranches |-> 1],
      remote |-> [b \in LocalBranches |-> IF b = <<"m">> THEN n ELSE 1]] :
        h \in LocalBranches, n \in 1..MaxRemote}

\* The repository after "git fetch --all --prune": the remote-tracking branches
\* follow the remote.
AfterFetch(repo) == [repo EXCEPT !.tracking = repo.remote]

\* The repository after "git pull": the fetch, then the checked-out branch is
\* fast-forwarded to its upstream.
AfterPull(repo) ==
    [repo EXCEPT !.tracking = repo.remote,
                 !.branches[repo.head] = repo.remote[repo.head]]

\* The repository after a git command of the tools has run to its end.
After(command, repo) ==
    IF command = "fetch" THEN AfterFetch(repo)
    ELSE IF command = "pull" THEN AfterPull(repo)
    ELSE repo

\* The number of commits "git log --all" lists: those of the longest branch,
\* local or remote-tracking.
Listed_All(repo) ==
    CHOOSE n \in {repo.branches[b] : b \in LocalBranches}
                 \cup {repo.tracking[b] : b \in LocalBranches} :
        \A b \in LocalBranches : n >= repo.branches[b] /\ n >= repo.tracking[b]

\* What "git log --numstat --pretty=COMMIT|..." prints, for all authors
\* (author = None) or for one.
LogText(repo, author) ==
    IF author \notin {None, AuthorA} THEN <<>>
    ELSE JoinLines([k \in 1..(2 * Listed_All(repo)) |->
                       IF k % 2 = 1 THEN LineCommitH ELSE LineNumstat])

\* What "git branch --all --format=%(refname:short)|%(committerdate)" prints:
\* a line for each local and each remote-tracking branch.
BranchText(repo) ==
    JoinLines([k \in 1..(2 * Len(BranchOrder)) |->
        IF k <= Len(BranchOrder)
        THEN BranchOrder[k] \o <<"|">> \o Decimal(repo.branches[BranchOrder[k]])
        ELSE Upstream(BranchOrder[k - Len(BranchOrder)]) \o <<"|">>
                 \o Decimal(repo.tracking[BranchOrder[k - Len(BranchOrder)]])])

\* What "git status --branch --short" prints in a clean working tree.
StatusText(repo) ==
    LET b == repo.head
        behind == repo.tracking[b] - repo.branches[b]
    IN  IF behind > 0 THEN StatusBehind(b, Upstream(b), behind)
        ELSE StatusTracked(b, Upstream(b))

\* What "git fetch --all --prune --verbose" prints: the remote, then a line for
\* each remote-tracking branch it moves.
FetchText(repo) ==
    LET moved == SelectSeq(BranchOrder, LAMBDA b : repo.tracking[b] < repo.remote[b])
    IN  JoinLines(<<FetchLineRemoteO>>
                  \o [k \in 1..Len(moved) |->
                         moved[k] \o <<" ">> \o ARROW \o <<" ">> \o Upstream(moved[k])])

ALREADY_UP_TO_DATE == <<"A", "l", "r", "e", "a", "d", "y", " ", "u", "p", " ", "t", "o", " ", "d", "a", "t", "e">>

ALREADY_UP_TO_DATE_HYPHENS == <<"A", "l", "r", "e", "a", "d", "y", " ", "u", "p", "-", "t", "o", "-", "d", "a", "t", "e">>

\* What "git pull --verbose" prints.
PullText(repo) ==
    IF repo.remote[repo.head] > repo.branches[repo.head]
    THEN <<"F", "a", "s", "t", "-", "f", "o", "r", "w", "a", "r", "d">>
    ELSE ALREADY_UP_TO_DATE \o <<".">>

\* The standard output of a git command that ends with exit status 0.
Stdout(call, repo) ==
    IF call.command \in {"log", "log --follow"} THEN LogText(repo, call.author)
    ELSE IF call.command = "branch" THEN BranchText(repo)
    ELSE IF call.command = "status" THEN StatusText(repo)
    ELSE IF call.command = "fetch" THEN FetchText(repo)
    ELSE IF call.command = "pull" THEN PullText(repo)
    ELSE <<>>

----------------------------------------------------------------------------
(* The functions that assemble the responses of the tools.  raised = TRUE  *)
(* is the ValueError of a parser; otherwise value is the dict returned.    *)

\* f"{c['author_name']} <{c['author_email']}>"
AuthorLabel(c) == c.author_name \o <<" ", "<">> \o c.author_email \o <<">">>

AuthorLabels(cs) == {AuthorLabel(cs[k]) : k \in 1..Len(cs)}

build_branch_list_json(path, branches_raw) ==
    LET branches == parse_branches(branches_raw)
    IN  [raised |-> FALSE,
         value |-> [repo |-> [path |-> path],
                    branches |-> branches,
                    total_branches |-> Len(branches)]]

build_commit_history_json(path, commits_raw) ==
    LET parsed == parse_commit_history(commits_raw)
        cs == parsed.value
        summary ==
            IF cs = <<>>
            THEN [total_commits |-> 0, total_files_changed |-> 0,
                  total_additions |-> 0, total_deletions |-> 0, authors |-> <<>>,
                  date_range |-> [earliest |-> None, latest |-> None]]
            ELSE [total_commits |-> Len(cs),
                  total_files_changed |-> SumTotalFiles(cs),
                  total_additions |-> SumTotalAdditions(cs),
                  total_deletions |-> SumTotalDeletions(cs),
                  authors |-> Sorted(AuthorLabels(cs)),
                  date_range |-> [earliest |-> cs[Len(cs)].date, latest |-> cs[1].date]]
    IN  IF parsed.raised THEN [raised |-> TRUE, value |-> <<>>]
        ELSE [raised |-> FALSE,
              value |-> [repo |-> [path |-> path],
                         filters |-> [branch |-> None, max_count |-> None,
                                      since |-> None, until |-> None, author |-> None],
                         commits |-> cs,
                         summary |-> summary]]

build_developer_stats_json(path, author, commits_raw) ==
    LET parsed == parse_commit_history(commits_raw)
        cs == parsed.value
        actual_range ==
            IF cs = <<>> THEN [first_commit |-> None, last_commit |-> None]
            ELSE [first_commit |-> cs[Len(cs)].date, last_commit |-> cs[1].date]
    IN  IF parsed.raised THEN [raised |-> TRUE, value |-> <<>>]
        ELSE [raised |-> FALSE,
              value |-> [repo |-> [path |-> path],
                         developer |-> [identifier |-> author,
                                        matched_as |-> Sorted(AuthorLabels(cs))],
                         time_range |-> [since |-> None, until |-> None,
                                         actual_range |-> actual_range],
                         stats |-> analyze_developer_stats(cs)]]

\* The loop of parse_file_history over the lines ls, current the open commit
\* and done the commits appended so far.
RECURSIVE FileLoop(_, _, _)
FileLoop(ls, current, done) ==
    IF ls = <<>>
    THEN [raised |-> FALSE,
          value |-> IF current = NoCommit THEN done ELSE Append(done, current[1])]
    ELSE LET line == Strip(Head(ls))
             flushed == IF current # NoCommit THEN Append(done, current[1]) ELSE done
             fields == Split(line, <<"\t">>, -1)
             additions == NumstatField(fields[1])
             deletions == NumstatField(fields[2])
         IN  IF StartsWith(line, SENTINEL)
             THEN FileLoop(Tail(ls), OpenFileCommit(Split(line, <<"|">>, 5)), flushed)
             ELSE IF current = NoCommit \/ line = <<>> \/ Len(fields) # NumstatFields
             THEN FileLoop(Tail(ls), current, done)
             ELSE IF ~additions.ok \/ ~deletions.ok
             THEN [raised |-> TRUE, value |-> <<>>]
             ELSE FileLoop(Tail(ls),
                           <<[current[1] EXCEPT !.changes =
                                [additions |-> additions.val,
                                 deletions |-> deletions.val,
                                 file_path |-> Strip(fields[3])]]>>,
                           done)

parse_file_history(text, target) ==
    IF text = <<>> THEN [raised |-> FALSE, value |-> <<>>]
    ELSE FileLoop(SplitLines(text), NoCommit, <<>>)

\* The file the tool get_file_changes is asked about; it is in the working tree.
FilePath == <<"f">>

build_file_history_json(path, file_path, file_history_raw) ==
    LET parsed == parse_file_history(file_history_raw, file_path)
        cs == parsed.value
        summary ==
            IF cs = <<>>
            THEN [total_commits |-> 0, total_additions |-> 0, total_deletions |-> 0,
                  unique_authors |-> <<>>, first_change |-> None, last_change |-> None]
            ELSE [total_commits |-> Len(cs),
                  total_additions |-> SumSeq([k \in 1..Len(cs) |-> cs[k].changes.additions]),
                  total_deletions |-> SumSeq([k \in 1..Len(cs) |-> cs[k].changes.deletions]),
                  unique_authors |-> Sorted(AuthorLabels(cs)),
                  first_change |-> cs[Len(cs)].date,
                  last_change |-> cs[1].date]
    IN  IF parsed.raised THEN [raised |-> TRUE, value |-> <<>>]
        ELSE [raised |-> FALSE,
              value |-> [repo |-> [path |-> path],
                         file |-> [path |-> file_path, exists |-> TRUE],
                         time_range |-> [since |-> None, until |-> None,
                                         max_count |-> None],
                         commits |-> cs,
                         summary |-> summary]]

\* os.path.basename on the paths of the file system.
Basename(path) ==
    IF path = "/r" THEN "r" ELSE IF path = "/d" THEN "d"
    ELSE IF path = "/f" THEN "f" ELSE ""

\* build_dashboard_json after collect_dashboard_data has returned commits_raw;
\* visualization_hints is a literal, the same in every response.
build_dashboard_json(path, commits_raw) ==
    LET parsed == parse_commit_history(commits_raw)
        cs == parsed.value
    IN  IF parsed.raised THEN [raised |-> TRUE, value |-> <<>>]
        ELSE [raised |-> FALSE,
              value |-> [repo |-> [path |-> path, name |-> Basename(path)],
                         period |-> [since |-> "30 days ago", until |-> "now",
                                     total_commits_analyzed |-> Len(cs)],
                         executive_summary |-> analyze_executive_summary(cs),
                         team_performance |-> analyze_team_performance(cs),
                         code_health |-> analyze_code_health(cs),
                         visualization_hints |-> "literal"]]

\* The dict build_comparison_json returns for the entries it has collected.
ComparisonResponse(path, entries) ==
    [raised |-> FALSE,
     value |-> [repo |-> [path |-> path],
                time_range |-> [since |-> None, until |-> None],
                developers |-> Scored(entries),
                comparison |-> compare_developers(entries)]]

\* The message of build_sync_json.
SyncMessage(operation, raw_output, sync_result) ==
    LET remotes_count == Len(sync_result.remotes_synced)
        branches_updated_count == Len(sync_result.branches_updated)
        branches_pruned_count == Len(sync_result.branches_pruned)
    IN  IF operation = "fetch"
        THEN <<"S", "u", "c", "c", "e", "s", "s", "f", "u", "l", "l", "y", " ", "f", "e", "t", "c", "h", "e", "d", " ", "f", "r", "o", "m", " ">> \o Decimal(remotes_count)
                 \o <<" ", "r", "e", "m", "o", "t", "e", "(", "s", ")">>
                 \o (IF branches_updated_count > 0
                     THEN <<",", " ">> \o Decimal(branches_updated_count)
                              \o <<" ", "b", "r", "a", "n", "c", "h", "(", "e", "s", ")", " ", "u", "p", "d", "a", "t", "e", "d">>
                     ELSE <<>>)
                 \o (IF branches_pruned_count > 0
                     THEN <<",", " ">> \o Decimal(branches_pruned_count)
                              \o <<" ", "b", "r", "a", "n", "c", "h", "(", "e", "s", ")", " ", "p", "r", "u", "n", "e", "d">>
                     ELSE <<>>)
        ELSE IF Contains(raw_output, ALREADY_UP_TO_DATE)
                \/ Contains(raw_output, ALREADY_UP_TO_DATE_HYPHENS)
        THEN <<"A", "l", "r", "e", "a", "d", "y", " ", "u", "p", " ", "t", "o", " ", "d", "a", "t", "e", " ", "w", "i", "t", "h", " ", "r", "e", "m", "o", "t", "e">>
        ELSE <<"S", "u", "c", "c", "e", "s", "s", "f", "u", "l", "l", "y", " ", "p", "u", "l", "l", "e", "d", " ", "l", "a", "t", "e", "s", "t", " ", "c", "h", "a", "n", "g", "e", "s">>

\* now is what datetime.now() returns when the response is built.
build_sync_json(path, operation, raw_output, status_output, now) ==
    LET sync_result == parse_fetch_output(raw_output)
        status_after == parse_status_output(status_output)
    IN  IF status_after.raised THEN [raised |-> TRUE, value |-> <<>>]
        ELSE [raised |-> FALSE,
              value |-> [repo |-> [path |-> path],
                         operation |-> operation,
                         timestamp |-> now,
                         sync_result |-> sync_result,
                         status_after |-> status_after.value,
                         summary |-> [success |-> TRUE,
                                      remotes_synced |-> Len(sync_result.remotes_synced),
                                      branches_updated |-> Len(sync_result.branches_updated),
                                      branches_pruned |-> Len(sync_result.branches_pruned),
                                      message |-> SyncMessage(operation, raw_output,
                                                              sync_result)]]]

----------------------------------------------------------------------------
(* The server: the tools server.py registers, called as tasks of one event *)
(* loop on the repository.  A step of a task runs its coroutine from its   *)
(* call or from the end of the git command it awaits to its next await or  *)
(* to its end; the steps of the tasks interleave.  A task holds the        *)
(* arguments and the locals of its call; git_calls there lists the git     *)
(* commands it has started, each with its outcome.                         *)

Tools ==
    {"get_branch_list", "get_commit_history", "get_developer_stats",
     "compare_developer_stats", "get_file_changes", "sync_repository",
     "get_project_dashboard"}

\* SyncOperations with "push" accepted as well.
SyncOperationsWithPush == {"fetch", "pull", "push"}

\* The operations sync_repository accepts.
SyncOperations == {"fetch", "pull"}

\* The values of its argument operation.
Operations == SyncOperations \cup {"push"}

\* The values of the argument authors of compare_developer_stats.
ComparedLists == {<<AuthorA>>, <<AuthorA, AuthorB>>}

\* The values datetime.now() may return.
Clock == {"T1", "T2"}

Call(tool, path, operation, names) ==
    [tool |-> tool, repo_path |-> path, operation |-> operation, authors |-> names]

\* The calls of one tool at a time: every tool on every path.
ServerCalls ==
    {Call(tool, path, "", <<>>) :
        tool \in Tools \ {"sync_repository", "compare_developer_stats"},
        path \in RepoPaths}
    \cup {Call("sync_repository", path, operation, <<>>) :
            path \in RepoPaths, operation \in Operations}
    \cup {Call("compare_developer_stats", path, "", names) :
            path \in RepoPaths, names \in ComparedLists}

\* The calls that run two at a time: those on the repository.
ConcurrentCalls == {call \in ServerCalls : IsRepository(call.repo_path)}

\* The calls that run three at a time.
ThreeCalls ==
    <<Call("sync_repository", "/r", "fetch", <<>>),
      Call("compare_developer_stats", "/r", "", <<AuthorA, AuthorB>>),
      Call("get_branch_list", "/r", "", <<>>)>>

\* A call that has not run yet.
Task(call) ==
    [tool |-> call.tool, repo_path |-> call.repo_path, operation |-> call.operation,
     authors |-> call.authors, pc |-> "start", git_calls |-> <<>>, raw |-> <<>>,
     developer_stats |-> <<>>, result |-> <<>>, error |-> ""]

\* The arguments a task was called with.
CallOf(task) == Call(task.tool, task.repo_path, task.operation, task.authors)

\* The frame that holds the locals of task t: all tasks share one.
SharedFrame(t) == 1

\* The frame that holds the locals of task t: its own.
Frame(t) == t

\* The exception e leaves the tool.
Raise(task, e) == [task EXCEPT !.pc = "raised", !.error = e]

\* The tool returns response.value, or the parser's ValueError leaves it.
Return(task, response) ==
    IF response.raised THEN Raise(task, "ValueError")
    ELSE [task EXCEPT !.pc = "done", !.result = response.value]

\* run_git up to its await: git_exe finds git and the command is started, or
\* GitNotFoundError is raised.
run_git(task, command, author, git_found) ==
    IF ~git_found THEN Raise(task, "GitNotFoundError")
    ELSE [task EXCEPT !.pc = "await",
                      !.git_calls = Append(@, [command |-> command, author |-> author,
                                               outcome |-> "running"])]

\* The git command the task awaits.
Awaited(task) == task.git_calls[Len(task.git_calls)]

\* The outcomes of the command the task awaits: exit status 0, only in a
\* repository, or an exception of run_git.
Outcomes(task) ==
    IF IsRepository(task.repo_path) THEN {"ok"} \cup GitFailures ELSE GitFailures

\* The task after the command it awaits has ended.
Ended(task, outcome) ==
    [task EXCEPT !.git_calls[Len(task.git_calls)].outcome = outcome]

\* The repositories the command may leave: a command that fails or is killed
\* at its timeout may or may not have done its work.
Left(command, outcome) ==
    IF outcome = "ok" THEN {After(command, repository)}
    ELSE {repository, After(command, repository)}

ServerInit ==
    /\ fn = "server"
    /\ raw = <<>>
    /\ target_file = None
    /\ lines = <<>>
    /\ i = 1
    /\ current_commit = NoCommit
    /\ commits = <<>>
    /\ pc = "start"
    /\ result = <<>>
    /\ error = ""
    /\ repo_path = ""
    /\ authors = <<>>
    /\ developer_stats = <<>>
    /\ git_calls = <<>>
    /\ repository \in Repositories
    /\ tasks \in {<<Task(call)>> : call \in ServerCalls}
                 \cup {<<Task(c), Task(d)>> : c \in ConcurrentCalls, d \in ConcurrentCalls}
                 \cup {[k \in 1..Len(ThreeCalls) |-> Task(ThreeCalls[k])]}

\* What a step of the server leaves alone.
calledVars ==
    <<fn, raw, target_file, lines, i, current_commit, commits, pc, result, error,
      repo_path, authors, developer_stats, git_calls>>

\* get_branch_list without its first statement: it starts with its query.
FirstCommandOfBranchList(task) ==
    IF task.tool = "get_branch_list" THEN "branch" ELSE "rev-parse"

\* The git command a tool starts with: every tool awaits ensure_is_git_repo
\* first, which runs "git rev-parse --git-dir".
FirstCommand(task) == "rev-parse"

\* ensure_is_git_repo up to its await, the first statement of every tool: the
\* checks of repo_path, then run_git starts "git rev-parse --git-dir".
ensure_is_git_repo ==
    \E t \in DOMAIN tasks :
        /\ tasks[t].pc = "start"
        /\ \E git_found \in BOOLEAN :
              tasks' = [tasks EXCEPT ![t] =
                           IF @.repo_path = "" THEN Raise(@, "ValueError")
                           ELSE IF ~IsDir(@.repo_path) THEN Raise(@, "GitRepositoryError")
                           ELSE run_git(@, FirstCommand(@), None, git_found)]
        /\ UNCHANGED <<calledVars, repository>>

\* A tool that runs one git command after the check and answers from what it
\* printed: the command the task awaits ends; after the check the command is
\* started, after the command the tool answers with response, assembled
\* from the output of the command (Output).
Output(t) == Stdout(Awaited(tasks[t]), repository)

Query(t, command, author, response) ==
    /\ tasks[t].pc = "await"
    /\ \E outcome \in Outcomes(tasks[t]), git_found \in BOOLEAN :
          LET call == Awaited(tasks[t])
              out == Output(t)
          IN  /\ repository' \in Left(call.command, outcome)
              /\ IF outcome # "ok"
                 THEN tasks' = [tasks EXCEPT ![t] = Raise(Ended(@, outcome), outcome)]
                 ELSE IF call.command = "rev-parse"
                 THEN tasks' = [tasks EXCEPT ![t] =
                         run_git(Ended(@, outcome), command, author, git_found)]
                 ELSE tasks' = [tasks EXCEPT
                         ![Frame(t)].raw = out,
                         ![t] = Return(Ended(@, outcome), response)]
    /\ UNCHANGED calledVars

get_branch_list ==
    \E t \in DOMAIN tasks :
        /\ tasks[t].tool = "get_branch_list"
        /\ Query(t, "branch", None,
                 build_branch_list_json(tasks[t].repo_path, Output(t)))

get_commit_history ==
    \E t \in DOMAIN tasks :
        /\ tasks[t].tool = "get_commit_history"
        /\ Query(t, "log", None,
                 build_commit_history_json(tasks[t].repo_path, Output(t)))

get_developer_stats ==
    \E t \in DOMAIN tasks :
        /\ tasks[t].tool = "get_developer_stats"
        /\ Query(t, "log", AuthorA,
                 build_developer_stats_json(tasks[t].repo_path, AuthorA, Output(t)))

get_file_changes ==
    \E t \in DOMAIN tasks :
        /\ tasks[t].tool = "get_file_changes"
        /\ Query(t, "log --follow", None,
                 build_file_history_json(tasks[t].repo_path, FilePath, Output(t)))

get_project_dashboard ==
    \E t \in DOMAIN tasks :
        /\ tasks[t].tool = "get_project_dashboard"
        /\ Query(t, "log", None,
                 build_dashboard_json(tasks[t].repo_path, Output(t)))

\* compare_developer_stats from the end of the command it awaits: after the
\* check the two checks of authors; in the loop of build_comparison_json the
\* entry of the author is appended and the history of the next is asked for;
\* after the loop compare_developers leaves activity_score in the entries.
compare_developer_stats ==
    \E t \in DOMAIN tasks :
        /\ tasks[t].tool = "compare_developer_stats"
        /\ tasks[t].pc = "await"
        /\ \E outcome \in Outcomes(tasks[t]), git_found \in BOOLEAN :
              LET call == Awaited(tasks[t])
                  names == tasks[t].authors
                  parsed == parse_commit_history(Stdout(call, repository))
                  entries == Append(tasks[Frame(t)].developer_stats,
                                    [developer |-> call.author,
                                     stats |-> analyze_developer_stats(parsed.value)])
              IN  /\ repository' \in Left(call.command, outcome)
                  /\ IF outcome # "ok"
                     THEN tasks' = [tasks EXCEPT ![t] = Raise(Ended(@, outcome), outcome)]
                     ELSE IF call.command = "rev-parse"
                     THEN tasks' = [tasks EXCEPT ![t] =
                             IF Len(names) < MinCompared \/ Len(names) > MaxCompared
                             THEN Raise(Ended(@, outcome), "ValueError")
                             ELSE run_git(Ended(@, outcome), "log", names[1], git_found)]
                     ELSE IF parsed.raised
                     THEN tasks' = [tasks EXCEPT ![t] = Raise(Ended(@, outcome), "ValueError")]
                     ELSE IF Len(entries) < Len(names)
                     THEN tasks' = [tasks EXCEPT
                             ![Frame(t)].developer_stats = entries,
                             ![t] = run_git(Ended(@, outcome), "log",
                                            names[Len(entries) + 1], git_found)]
                     ELSE tasks' = [tasks EXCEPT
                             ![Frame(t)].developer_stats = Scored(entries),
                             ![t] = Return(Ended(@, outcome),
                                           ComparisonResponse(@.repo_path, entries))]
        /\ UNCHANGED calledVars

\* What sync_repository_pull returns, called without a branch: f"PULL:\n{pull_output}"
PullReport(pull_output) == <<"P", "U", "L", "L", ":", "\n">> \o pull_output

\* sync_repository from the end of the command it awaits: after the check the
\* check of operation, then the fetch or the pull is started; after that
\* command its output is kept and get_sync_status is started; after the status
\* build_sync_json assembles the response.
sync_repository ==
    \E t \in DOMAIN tasks :
        /\ tasks[t].tool = "sync_repository"
        /\ tasks[t].pc = "await"
        /\ \E outcome \in Outcomes(tasks[t]), git_found \in BOOLEAN, now \in Clock :
              LET call == Awaited(tasks[t])
                  out == Stdout(call, repository)
              IN  /\ repository' \in Left(call.command, outcome)
                  /\ IF outcome # "ok"
                     THEN tasks' = [tasks EXCEPT ![t] = Raise(Ended(@, outcome), outcome)]
                     ELSE IF call.command = "rev-parse"
                     THEN tasks' = [tasks EXCEPT ![t] =
                             IF @.operation \notin SyncOperations
                             THEN Raise(Ended(@, outcome), "ValueError")
                             ELSE run_git(Ended(@, outcome), @.operation, None, git_found)]
                     ELSE IF call.command \in SyncOperations
                     THEN tasks' = [tasks EXCEPT
                             ![Frame(t)].raw = IF call.command = "pull" THEN PullReport(out)
                                               ELSE out,
                             ![t] = run_git(Ended(@, outcome), "status", None, git_found)]
                     ELSE tasks' = [tasks EXCEPT ![t] =
                             Return(Ended(@, outcome),
                                    build_sync_json(@.repo_path, @.operation,
                                                    tasks[Frame(t)].raw, out, now))]
        /\ UNCHANGED calledVars

ServerNext ==
    \/ ensure_is_git_repo
    \/ get_branch_list
    \/ get_commit_history
    \/ get_developer_stats
    \/ compare_developer_stats
    \/ get_file_changes
    \/ sync_repository
    \/ get_project_dashboard

SpecServer == ServerInit /\ [][ServerNext]_vars

----------------------------------------------------------------------------
(* Properties of the log parsers.                                          *)

\* The sum of f over the index set S.
RECURSIVE SumOver(_, _)
SumOver(f, S) ==
    IF S = {} THEN 0
    ELSE LET k == CHOOSE k \in S : TRUE IN f[k] + SumOver(f, S \ {k})

Count(s, c) == Cardinality({k \in 1..Len(s) : s[k] = c})

\* A line that starts a record or discards one: "COMMIT|" after stripping.
IsSentinelLine(l) == StartsWith(Strip(l), SENTINEL)

\* Split at no more than 5 pipes, a sentinel line has 6 fields iff it holds 5 pipes.
IsValidSentinel(l) == IsSentinelLine(l) /\ Count(Strip(l), "|") >= 5

IsMalformedSentinel(l) == IsSentinelLine(l) /\ Count(Strip(l), "|") < 5

\* A non-sentinel line with exactly 3 tab-separated fields.
IsNumstatLine(l) == ~IsSentinelLine(l) /\ Count(Strip(l), "\t") = 2

\* The positions of the valid sentinels among the lines, and the k-th of them.
ValidSentinels == {j \in 1..Len(lines) : IsValidSentinel(lines[j])}

NthValidSentinel(k) ==
    CHOOSE j \in ValidSentinels : Cardinality({m \in ValidSentinels : m <= j}) = k

\* The hash field of a valid sentinel line: the text between its first two pipes.
SentinelHash(l) == Strip(Split(Strip(l), <<"|">>, 5)[2])

\* The first line after line j that is a sentinel line, Len(lines) + 1 if none is.
NextSentinel(j) ==
    LET after == {m \in (j + 1)..Len(lines) : IsSentinelLine(lines[m])}
    IN  IF after = {} THEN Len(lines) + 1 ELSE CHOOSE m \in after : \A n \in after : m <= n

\* The numstat lines that follow the sentinel at line j before the next sentinel.
NumstatLinesOf(j) == {m \in (j + 1)..(NextSentinel(j) - 1) : IsNumstatLine(lines[m])}

Returned == pc = "done"

\* C1: every record parse_commit_history returns (or has appended so far) has
\* stats.total_files = the number of its files, stats.total_additions = the sum
\* of their additions and stats.total_deletions = the sum of their deletions.
C1_StatsMatchFiles ==
    fn = "parse_commit_history" =>
        \A k \in 1..Len(commits) :
            LET c == commits[k]
                idx == DOMAIN c.files
            IN  /\ c.stats.total_files = Cardinality(idx)
                /\ c.stats.total_additions = SumOver([j \in idx |-> c.files[j].additions], idx)
                /\ c.stats.total_deletions = SumOver([j \in idx |-> c.files[j].deletions], idx)

\* A returned record with two files whose additions and deletions differ.
C1_Witness ==
    /\ fn = "parse_commit_history"
    /\ Returned
    /\ \E k \in 1..Len(commits) :
          /\ Len(commits[k].files) = 2
          /\ commits[k].stats.total_additions > commits[k].stats.total_deletions
          /\ commits[k].stats.total_deletions > 0

\* C2: parse_commit_history and parse_file_history never raise: a non-sentinel
\* line of 3 tab fields whose additions or deletions field is neither "-" nor a
\* decimal integer is dropped, and the loop goes on with the next line.
C2_NeverRaises ==
    fn \in {"parse_commit_history", "parse_file_history"} => pc # "raised"

\* C3: in both parsers a "COMMIT|" line that does not split into 6 fields opens
\* no record and appends the open record (if any) unchanged, with the file
\* changes read so far; while no record is open a non-sentinel line changes
\* neither the open record nor the records appended.
C3_MalformedSentinelDiscarded ==
    [][(pc = "loop" /\ i <= Len(lines)) =>
          /\ IsMalformedSentinel(lines[i]) =>
                /\ current_commit' = NoCommit
                /\ pc' = "loop" /\ i' = i + 1
                /\ IF current_commit = NoCommit THEN commits' = commits
                   ELSE /\ Len(commits') = Len(commits) + 1
                        /\ SubSeq(commits', 1, Len(commits)) = commits
                        /\ commits'[Len(commits')].hash = current_commit[1].hash
                        /\ fn = "parse_commit_history" =>
                              commits'[Len(commits')].files = current_commit[1].files
                        /\ fn = "parse_file_history" =>
                              commits'[Len(commits')].changes = current_commit[1].changes
          /\ (~IsSentinelLine(lines[i]) /\ current_commit = NoCommit) =>
                /\ current_commit' = NoCommit
                /\ commits' = commits
                /\ pc' = "loop" /\ i' = i + 1
      ]_vars

\* A record with a file change was appended at a malformed sentinel, and the
\* line after that sentinel, a numstat line, was skipped.
C3_Witness ==
    /\ pc = "loop"
    /\ i > 2
    /\ IsMalformedSentinel(lines[i - 2])
    /\ IsNumstatLine(lines[i - 1])
    /\ current_commit = NoCommit
    /\ commits # <<>>
    /\ fn = "parse_commit_history"
    /\ commits[Len(commits)].files # <<>>

\* C4: parse_commit_history returns exactly one record per valid sentinel line,
\* in the order of the sentinels, the last one without a trailing sentinel; a
\* valid sentinel followed by no file-change line yields an empty files list.
C4_OneRecordPerValidSentinel ==
    (fn = "parse_commit_history" /\ pc \in {"done", "raised"}) =>
        /\ Returned
        /\ Len(commits) = Cardinality(ValidSentinels)
        /\ \A k \in 1..Len(commits) :
              /\ commits[k].hash = SentinelHash(lines[NthValidSentinel(k)])
              /\ NumstatLinesOf(NthValidSentinel(k)) = {} => commits[k].files = <<>>

\* C4 in the runs that return.
C4_WhenReturned ==
    (fn = "parse_commit_history" /\ Returned) => C4_OneRecordPerValidSentinel

\* C5: every FileChange produced by parse_commit_history has additions >= 0 and
\* deletions >= 0.
C5_CountsNonNegative ==
    fn = "parse_commit_history" =>
        \A k \in 1..Len(commits) :
            \A j \in 1..Len(commits[k].files) :
                commits[k].files[j].additions >= 0 /\ commits[k].files[j].deletions >= 0

\* The changes entry C6 gives the record opened by the sentinel at line j.
ExpectedChanges(j) ==
    LET ns == NumstatLinesOf(j)
        last == CHOOSE m \in ns : \A n \in ns : n <= m
        fields == Split(Strip(lines[last]), <<"\t">>, -1)
    IN  IF ns = {} THEN [additions |-> 0, deletions |-> 0, file_path |-> None]
        ELSE [additions |-> NumstatField(fields[1]).val,
              deletions |-> NumstatField(fields[2]).val,
              file_path |-> Strip(fields[3])]

\* C6: every record parse_file_history returns has one changes entry: the default
\* {0, 0, None} when no numstat line follows its sentinel before the next
\* sentinel or the end, otherwise the counts and the path of the last numstat
\* line that follows its own sentinel.
C6_ChangesOfOwnLastNumstat ==
    (fn = "parse_file_history" /\ Returned) =>
        /\ Len(commits) = Cardinality(ValidSentinels)
        /\ \A k \in 1..Len(commits) :
              commits[k].changes = ExpectedChanges(NthValidSentinel(k))

\* Two records are returned: one whose sentinel is followed by two numstat lines,
\* one with the default entry.
C6_Witness ==
    /\ fn = "parse_file_history"
    /\ Returned
    /\ \E k \in 1..Len(commits) :
          /\ Cardinality(NumstatLinesOf(NthValidSentinel(k))) = 2
          /\ commits[k].changes.file_path \notin {None, target_file}
    /\ \E k \in 1..Len(commits) : commits[k].changes.file_path = None

----------------------------------------------------------------------------
(* Properties of parse_branches.                                           *)

\* The text of l before its first pipe and after it, stripped.
BranchNameOf(l) == Strip(SubSeq(Strip(l), 1, Find(Strip(l), <<"|">>) - 1))

BranchDateOf(l) == Strip(SubSeq(Strip(l), Find(Strip(l), <<"|">>) + 1, Len(Strip(l))))

\* A line that splits into exactly 2 pipe-delimited fields, both non-empty.
IsBranchLine(l) ==
    /\ Count(Strip(l), "|") = 1
    /\ BranchNameOf(l) # <<>>
    /\ BranchDateOf(l) # <<>>

RECURSIVE ClaimedBranches(_)
ClaimedBranches(ls) ==
    IF ls = <<>> THEN <<>>
    ELSE IF IsBranchLine(Head(ls))
    THEN <<[name |-> BranchNameOf(Head(ls)), last_commit_date |-> BranchDateOf(Head(ls))]>>
            \o ClaimedBranches(Tail(ls))
    ELSE ClaimedBranches(Tail(ls))

\* C7: parse_branches returns, in input order, one record for each line that
\* splits into exactly 2 non-empty pipe-delimited fields and drops every other
\* line (no pipe, empty name, empty date, more than one pipe), so every record
\* has a non-empty name and a non-empty last_commit_date.
C7_OnlyTwoNonEmptyFields ==
    (fn = "parse_branches" /\ Returned) =>
        /\ result = ClaimedBranches(SplitLines(raw))
        /\ \A k \in 1..Len(result) :
              result[k].name # <<>> /\ result[k].last_commit_date # <<>>

\* What the code does instead: a line is kept iff it holds a pipe and the text
\* before the first pipe is not blank; the date is all the text after that pipe.
C7_AsCoded ==
    (fn = "parse_branches" /\ Returned) =>
        /\ Len(result) = Cardinality({k \in 1..Len(SplitLines(raw)) :
                              LET l == SplitLines(raw)[k]
                              IN  Count(Strip(l), "|") >= 1 /\ BranchNameOf(l) # <<>>})
        /\ \A k \in 1..Len(result) : result[k].name # <<>>
----------------------------------------------------------------------------
(* Properties of parse_fetch_output.                                       *)

\* The number of "->" in l.
ArrowCount(l) == Cardinality({j \in 1..(Len(l) - 1) : SubSeq(l, j, j + 1) = ARROW})

\* The right-hand side of a line that holds "->": the text after its last "->".
RightHandSide(l) ==
    LET at == {j \in 1..(Len(l) - 1) : SubSeq(l, j, j + 1) = ARROW}
        last == CHOOSE j \in at : \A k \in at : k <= j
    IN  Strip(SubSeq(l, last + 2, Len(l)))

\* A line C8 gives an entry: it holds "->" and its right-hand side holds "/".
HasTarget(l) == ArrowCount(l) >= 1 /\ Contains(RightHandSide(l), <<"/">>)

\* The rule C8 applies to such a line, by the first marker that matches.
ClaimedKind(l) ==
    IF Contains(l, <<"[", "n", "e", "w", " ", "b", "r", "a", "n", "c", "h", "]">>) THEN "new"
    ELSE IF \/ Contains(l, <<"[", "d", "e", "l", "e", "t", "e", "d", "]">>)
            \/ Contains(l, <<"x", " ">>)
    THEN "pruned"
    ELSE "updated"

ClaimedRemote(l) == SubSeq(RightHandSide(l), 1, Find(RightHandSide(l), <<"/">>) - 1)

ClaimedBranch(l) ==
    SubSeq(RightHandSide(l), Find(RightHandSide(l), <<"/">>) + 1, Len(RightHandSide(l)))

RECURSIVE ClaimedUpdated(_)
ClaimedUpdated(ls) ==
    IF ls = <<>> THEN <<>>
    ELSE LET l == Strip(Head(ls))
         IN  IF HasTarget(l) /\ ClaimedKind(l) # "pruned"
             THEN <<[remote |-> ClaimedRemote(l), branch |-> ClaimedBranch(l),
                     action |-> ClaimedKind(l)]>> \o ClaimedUpdated(Tail(ls))
             ELSE ClaimedUpdated(Tail(ls))

RECURSIVE ClaimedPruned(_)
ClaimedPruned(ls) ==
    IF ls = <<>> THEN <<>>
    ELSE LET l == Strip(Head(ls))
         IN  IF HasTarget(l) /\ ClaimedKind(l) = "pruned"
             THEN <<ClaimedBranch(l)>> \o ClaimedPruned(Tail(ls))
             ELSE ClaimedPruned(Tail(ls))

\* C8: every line of the transcript that holds "->" and whose right-hand side
\* holds "/" contributes exactly one entry, by the first rule that matches
\* ("[new branch]": new; "[deleted]" or "x ": pruned; otherwise updated), with
\* the right-hand side split once at "/"; every other line contributes nothing.
C8_OneEntryPerArrowLine ==
    (fn = "parse_fetch_output" /\ Returned) =>
        /\ result.branches_updated = ClaimedUpdated(SplitLines(raw))
        /\ result.branches_pruned = ClaimedPruned(SplitLines(raw))

\* C8 on the transcripts none of whose lines holds more than one "->".
C8_SingleArrowLines ==
    (/\ fn = "parse_fetch_output"
     /\ Returned
     /\ \A k \in 1..Len(SplitLines(raw)) : ArrowCount(SplitLines(raw)[k]) <= 1)
        => C8_OneEntryPerArrowLine
----------------------------------------------------------------------------
(* Properties of parse_status_output.                                      *)

\* The first line of the report, without surrounding blanks.
FirstLine(text) ==
    IF Find(text, <<"\n">>) = 0 THEN text ELSE SubSeq(text, 1, Find(text, <<"\n">>) - 1)

HasHeader(text) ==
    /\ text # <<>>
    /\ Len(Strip(FirstLine(text))) >= 2
    /\ Strip(FirstLine(text))[1] = "#"
    /\ Strip(FirstLine(text))[2] = "#"

\* The decision table of C9.
ClaimedSyncStatus(ahead, behind) ==
    CASE ahead > 0 /\ behind > 0 -> "diverged"
      [] ahead > 0 /\ behind = 0 -> "ahead"
      [] ahead = 0 /\ behind > 0 -> "behind"
      [] ahead = 0 /\ behind = 0 -> "up-to-date"

C9_Returned ==
    /\ result.sync_status = "unknown" <=> ~HasHeader(raw)
    /\ ~HasHeader(raw) =>
          /\ result.current_branch = None
          /\ result.tracking = None
          /\ result.ahead = 0
          /\ result.behind = 0
    /\ result.ahead >= 0
    /\ result.behind >= 0
    /\ HasHeader(raw) => result.sync_status = ClaimedSyncStatus(result.ahead, result.behind)

\* C9: for every input parse_status_output returns a status; it is "unknown" iff
\* the input is empty or its first line (blanks stripped) does not start with
\* "##", and then the branch fields are None and the counts 0; otherwise it is
\* diverged / ahead / behind / up-to-date by the signs of ahead and behind,
\* which are never negative.
C9_StatusForEveryInput ==
    (fn = "parse_status_output" /\ pc \in {"done", "raised"}) => (Returned /\ C9_Returned)

\* C9 in the calls that return.
C9_WhenReturned ==
    (fn = "parse_status_output" /\ Returned) => C9_Returned

ResultIs(b, t, n, m) ==
    /\ Returned
    /\ result.current_branch = b
    /\ result.tracking = t
    /\ result.ahead = n
    /\ result.behind = m

\* C10: for a first line "## B...T", "## B...T [ahead N]", "## B...T [behind M]"
\* or "## B...T [ahead N, behind M]" the result has current_branch = B,
\* tracking = T, ahead = N and behind = M, an absent count being 0; for a bare
\* "## B" it has current_branch = B and tracking = None.
C10_FieldsOfStatusLine ==
    (fn = "parse_status_output" /\ pc \in {"done", "raised"}) =>
        \A b \in StatusBranches :
            /\ FirstLine(raw) = StatusBare(b) => ResultIs(b, None, 0, 0)
            /\ \A t \in StatusTrackings :
                  /\ FirstLine(raw) = StatusTracked(b, t) => ResultIs(b, t, 0, 0)
                  /\ \A n \in 0..MaxCount :
                        /\ FirstLine(raw) = StatusAhead(b, t, n) => ResultIs(b, t, n, 0)
                        /\ FirstLine(raw) = StatusBehind(b, t, n) => ResultIs(b, t, 0, n)
                        /\ \A m \in 0..MaxCount :
                              FirstLine(raw) = StatusDiverged(b, t, n, m)
                                  => ResultIs(b, t, n, m)

\* "## dev...o/m [ahead 10, behind 3]" was parsed.
C10_Witness ==
    /\ fn = "parse_status_output"
    /\ FirstLine(raw) = StatusDiverged(<<"d", "e", "v">>, <<"o", "/", "m">>, 10, 3)
    /\ ResultIs(<<"d", "e", "v">>, <<"o", "/", "m">>, 10, 3)
    /\ result.sync_status = "diverged"
----------------------------------------------------------------------------
(* Properties of analyze_developer_stats.                                  *)

\* The (commit, entry) positions of the files lists of the history cs.
Touches(cs) == UNION {{<<k, j>> : j \in 1..Len(cs[k].files)} : k \in 1..Len(cs)}

\* The distinct paths the history cs touches.
TouchedPaths(cs) == {cs[t[1]].files[t[2]].path : t \in Touches(cs)}

\* The commits of cs whose files list holds the path p.
CommitsTouching(cs, p) ==
    {k \in 1..Len(cs) : \E j \in 1..Len(cs[k].files) : cs[k].files[j].path = p}

\* The path p is met before the path q in the history cs.
FirstSeenBefore(cs, p, q) ==
    \E t \in Touches(cs) :
        /\ cs[t[1]].files[t[2]].path = p
        /\ \A u \in Touches(cs) :
              cs[u[1]].files[u[2]].path = q
                  => (t[1] < u[1] \/ (t[1] = u[1] /\ t[2] < u[2]))

DeveloperStatsReturned == fn = "analyze_developer_stats" /\ pc = "done"

\* C12: analyze_developer_stats returns total_commits = the number of input
\* commits, and total_files_changed, total_additions and total_deletions = the
\* sums over the input commits of stats.total_files, stats.total_additions and
\* stats.total_deletions; a path touched in k commits counts k times in
\* total_files_changed.
C12_TotalsAreSums ==
    DeveloperStatsReturned =>
        LET idx == 1..Len(commits)
        IN  /\ result.total_commits = Len(commits)
            /\ result.total_files_changed =
                   SumOver([k \in idx |-> commits[k].stats.total_files], idx)
            /\ result.total_additions =
                   SumOver([k \in idx |-> commits[k].stats.total_additions], idx)
            /\ result.total_deletions =
                   SumOver([k \in idx |-> commits[k].stats.total_deletions], idx)
            /\ result.total_files_changed =
                   Cardinality({<<k, p>> \in idx \X TouchedPaths(commits) :
                                   k \in CommitsTouching(commits, p)})

\* A history of three commits was analysed in which one path is touched by all
\* three, so that the files total exceeds the number of distinct paths.
C12_Witness ==
    /\ DeveloperStatsReturned
    /\ Len(commits) = 3
    /\ \E p \in TouchedPaths(commits) : Cardinality(CommitsTouching(commits, p)) = 3
    /\ result.total_files_changed > Cardinality(TouchedPaths(commits))
    /\ result.total_deletions > 0

\* C13: most_active_files has at most 20 entries, one per distinct path, in
\* non-increasing order of commit count; paths with equal commit counts keep the
\* order in which they were first met in the history, and no path left out has
\* more commits than a path that is returned.
C13_MostActiveFiles ==
    DeveloperStatsReturned =>
        LET m == result.most_active_files
            paths == TouchedPaths(commits)
            count(p) == Cardinality(CommitsTouching(commits, p))
        IN  /\ Len(m) <= 20
            /\ Len(m) = IF Cardinality(paths) < 20 THEN Cardinality(paths) ELSE 20
            /\ \A a \in 1..Len(m) :
                  /\ m[a].path \in paths
                  /\ m[a].commits = count(m[a].path)
                  /\ \A b \in (a + 1)..Len(m) :
                        /\ m[a].path # m[b].path
                        /\ m[a].commits >= m[b].commits
                        /\ m[a].commits = m[b].commits
                              => FirstSeenBefore(commits, m[a].path, m[b].path)
                  /\ \A p \in paths \ {m[b].path : b \in 1..Len(m)} :
                        count(p) <= m[a].commits

\* More than 20 paths were touched, 20 are returned, the first with more commits
\* than the last, and two returned paths tie.
C13_Witness ==
    /\ DeveloperStatsReturned
    /\ Cardinality(TouchedPaths(commits)) > 20
    /\ Len(result.most_active_files) = 20
    /\ result.most_active_files[1].commits > result.most_active_files[20].commits
    /\ result.most_active_files[19].commits = result.most_active_files[20].commits

----------------------------------------------------------------------------
(* Properties of the extension histograms.                                 *)

\* The extension of the path p as the histograms label it: "." and the text
\* after the last "." of p, or "(no extension)" when p holds no ".".
ClaimedExtension(p) ==
    LET dots == {k \in 1..Len(p) : p[k] = "."}
        last == CHOOSE k \in dots : \A m \in dots : m <= k
    IN  IF dots = {}
        THEN <<"(", "n", "o", " ", "e", "x", "t", "e", "n", "s", "i", "o", "n", ")">>
        ELSE <<".">> \o SubSeq(p, last + 1, Len(p))

\* The histogram a call returned: file_types or file_types_distribution.
Histogram ==
    IF fn = "analyze_developer_stats" THEN result.file_types
    ELSE result.file_types_distribution

HistogramReturned ==
    fn \in {"analyze_developer_stats", "analyze_code_health"} /\ pc = "done"

----------------------------------------------------------------------------
(* Properties of compare_developers.                                       *)

CompareReturned == fn = "compare_developers" /\ pc = "done"

\* The value of one of the five metrics for the developer entry d.
Metric(d, name) ==
    CASE name = "most_commits" -> d.stats.total_commits
      [] name = "most_files_changed" -> d.stats.total_files_changed
      [] name = "most_additions" -> d.stats.total_additions
      [] name = "most_deletions" -> d.stats.total_deletions
      [] name = "most_active" -> d.stats.total_additions + d.stats.total_deletions

RankingNames ==
    {"most_commits", "most_files_changed", "most_additions", "most_deletions", "most_active"}

\* C15: for a non-empty list, each of the five rankings names a developer whose
\* metric is the maximum over all inputs and gives that maximum as value; among
\* several developers with the maximum, the first of the input list is named.
C15_RankingsAreFirstMaxima ==
    (CompareReturned /\ developer_stats # <<>>) =>
        \A name \in RankingNames :
            LET ranking == result.rankings[name]
                idx == 1..Len(developer_stats)
                best == {k \in idx : \A m \in idx :
                            Metric(developer_stats[m], name) <= Metric(developer_stats[k], name)}
                first == CHOOSE k \in best : \A m \in best : k <= m
            IN  /\ Len(ranking) = 1
                /\ ranking[1].value = Metric(developer_stats[first], name)
                /\ ranking[1].developer = developer_stats[first].developer

\* Three developers were compared; "b" and then "a" tie on the most commits and
\* "b" is named, while another ranking names "a".
C15_Witness ==
    /\ CompareReturned
    /\ Len(developer_stats) = 3
    /\ developer_stats[1].developer = <<"b">>
    /\ developer_stats[2].developer = <<"a">>
    /\ developer_stats[1].stats.total_commits = 2
    /\ developer_stats[2].stats.total_commits = 2
    /\ developer_stats[3].stats.total_commits < 2
    /\ result.rankings.most_commits = <<[developer |-> <<"b">>, value |-> 2]>>
    /\ result.rankings.most_deletions[1].developer = <<"a">>

\* C16: totals holds the sums of total_commits, total_files_changed,
\* total_additions and total_deletions over all input developers; for an empty
\* list the four totals are 0 and the five rankings are null.
C16_TotalsOfComparison ==
    CompareReturned =>
        LET idx == 1..Len(developer_stats)
        IN  /\ result.totals.total_commits =
                   SumOver([k \in idx |-> developer_stats[k].stats.total_commits], idx)
            /\ result.totals.total_files_changed =
                   SumOver([k \in idx |-> developer_stats[k].stats.total_files_changed], idx)
            /\ result.totals.total_additions =
                   SumOver([k \in idx |-> developer_stats[k].stats.total_additions], idx)
            /\ result.totals.total_deletions =
                   SumOver([k \in idx |-> developer_stats[k].stats.total_deletions], idx)
            /\ developer_stats = <<>> =>
                   /\ \A name \in RankingNames : result.rankings[name] = <<>>
                   /\ result.totals = [total_commits |-> 0, total_files_changed |-> 0,
                                       total_additions |-> 0, total_deletions |-> 0]

\* Three developers with different stats were compared and the totals are the
\* sums 5, 7, 27 and 15.
C16_Witness ==
    /\ CompareReturned
    /\ Len(developer_stats) = 3
    /\ developer_stats[1].stats.total_commits = 1
    /\ result.totals = [total_commits |-> 5, total_files_changed |-> 7,
                        total_additions |-> 27, total_deletions |-> 15]

----------------------------------------------------------------------------
(* Properties of compare_developer_stats.                                  *)

\* The request names fewer than 2 or more than 10 authors.
BadAuthorCount ==
    fn = "compare_developer_stats" /\ (Len(authors) < 2 \/ Len(authors) > 10)

\* C17: a request with fewer than 2 or more than 10 authors is rejected with an
\* invalid-argument error raised before any git command is run and before any
\* text is requested: no git command has run at any moment of such a call, it
\* never returns, and when it has ended it has raised ValueError.
C17_RejectedBeforeAnyGitCommand ==
    BadAuthorCount =>
        /\ git_calls = <<>>
        /\ pc # "done"
        /\ pc = "raised" => error = "ValueError"

\* What the code does for such a request: no history is ever requested and no
\* comparison is returned; only the probe of ensure_is_git_repo may have run.
C17_NoHistoryRequested ==
    BadAuthorCount =>
        /\ \A k \in 1..Len(git_calls) : git_calls[k].command = "rev-parse"
        /\ Len(git_calls) <= 1
        /\ pc # "done"

\* A request with one author on a repository: it is rejected with ValueError
\* after "git rev-parse --git-dir" has run.
C17_ProbeRunsFirst ==
    /\ BadAuthorCount
    /\ repo_path = "/r"
    /\ Len(authors) = 1
    /\ pc = "raised"
    /\ error = "ValueError"
    /\ git_calls = <<GitCall("rev-parse", None)>>

----------------------------------------------------------------------------
(* Properties of analyze_executive_summary.                                *)

SummaryReturned ==
    fn = "analyze_executive_summary" /\ pc = "done" /\ commits # <<>>

\* The date and time of a commit date: the text before its last blank, read as
\* "YYYY-MM-DD HH:MM:SS".
DateTimeOf(date) ==
    LET blanks == {k \in 1..Len(date) : date[k] = " "}
        last == CHOOSE k \in blanks : \A m \in blanks : m <= k
    IN  FromIsoFormat(IF blanks = {} THEN date ELSE SubSeq(date, 1, last - 1))

\* The date a is no later than the date b.
NoLater(a, b) == a.day < b.day \/ (a.day = b.day /\ a.second <= b.second)

\* The whole days from the date a to the later date b.
WholeDays(a, b) == (b.day - a.day) - (IF b.second < a.second THEN 1 ELSE 0)

\* The whole days between the earliest and the latest date of the history cs.
SpanInDays(cs) ==
    LET at == [k \in 1..Len(cs) |-> DateTimeOf(cs[k].date)]
        earliest == CHOOSE k \in 1..Len(cs) : \A m \in 1..Len(cs) : NoLater(at[k], at[m])
        latest == CHOOSE k \in 1..Len(cs) : \A m \in 1..Len(cs) : NoLater(at[m], at[k])
    IN  WholeDays(at[earliest], at[latest])

\* The average t, in tenths, is n / divisor rounded to one decimal.
IsRounded(t, n, divisor) ==
    LET diff == 2 * t * divisor - 20 * n
    IN  diff <= divisor /\ 0 - diff <= divisor

\* The fields of the summary other than the average.
OtherSummaryFields ==
    /\ result.total_commits = Len(commits)
    /\ result.total_developers =
           Cardinality({commits[k].author_name : k \in 1..Len(commits)})
    /\ result.total_files_changed = Cardinality(TouchedPaths(commits))
    /\ result.net_lines = result.total_additions - result.total_deletions

\* C18: avg_commits_per_day is the commit count divided by max(1, D + 1), D the
\* whole days between the earliest and the latest commit date of the sequence,
\* whatever the order of the records; it never exceeds total_commits; when the
\* date of either end does not parse it is 0 and the other fields are returned.
C18_AveragePerDay ==
    SummaryReturned =>
        LET n == Len(commits)
            parses == [k \in 1..n |-> DateTimeOf(commits[k].date).ok]
            span == SpanInDays(commits)
        IN  /\ result.avg_commits_per_day <= 10 * n
            /\ OtherSummaryFields
            /\ (\A k \in 1..n : parses[k]) =>
                   IsRounded(result.avg_commits_per_day, n,
                             IF span + 1 > 1 THEN span + 1 ELSE 1)
            /\ (~parses[1] \/ ~parses[n]) => result.avg_commits_per_day = 0

\* The records are ordered from the latest date to the earliest, as git log
\* prints them.
NewestFirst ==
    \A k \in 1..(Len(commits) - 1) :
        NoLater(DateTimeOf(commits[k + 1].date), DateTimeOf(commits[k].date))

\* What the code computes: the claim's average whenever the records come
\* newest first.
C18_WhenNewestFirst ==
    (SummaryReturned /\ NewestFirst) => C18_AveragePerDay

\* Two commits, the earlier one first: the code divides by 1.
C18_OldestFirst ==
    /\ SummaryReturned
    /\ Len(commits) = 2
    /\ commits[1].date = DateJan1
    /\ commits[2].date = DateJan4
    /\ result.avg_commits_per_day = 20

----------------------------------------------------------------------------
(* Properties of analyze_team_performance.                                 *)

TeamReturned ==
    fn = "analyze_team_performance" /\ pc = "done" /\ commits # <<>>

AuthorNames(cs) == {cs[k].author_name : k \in 1..Len(cs)}

CommitsBy(cs, a) == Cardinality({k \in 1..Len(cs) : cs[k].author_name = a})

FirstCommitBy(cs, a) ==
    CHOOSE k \in 1..Len(cs) :
        cs[k].author_name = a /\ \A m \in 1..(k - 1) : cs[m].author_name # a

\* The developers listed in top_contributors.
Listed == {result.top_contributors[r].developer : r \in 1..Len(result.top_contributors)}

\* C19: top_contributors has min(5, number of distinct author names) entries,
\* in non-increasing order of commit count, with ranks 1, 2, ... in list order;
\* no contributor left out has more commits than a listed one, and contributors
\* with equal commit counts stand in the order of their first commits.
C19_TopContributors ==
    TeamReturned =>
        LET top == result.top_contributors
            names == AuthorNames(commits)
        IN  /\ Len(top) = IF Cardinality(names) < 5 THEN Cardinality(names) ELSE 5
            /\ \A r \in 1..Len(top) :
                   /\ top[r].rank = r
                   /\ top[r].developer \in names
                   /\ top[r].commits = CommitsBy(commits, top[r].developer)
            /\ \A r \in 1..Len(top), q \in 1..Len(top) :
                   r < q =>
                       /\ top[r].developer # top[q].developer
                       /\ top[r].commits >= top[q].commits
                       /\ top[r].commits = top[q].commits =>
                              FirstCommitBy(commits, top[r].developer)
                                  < FirstCommitBy(commits, top[q].developer)
            /\ \A a \in names \ Listed, r \in 1..Len(top) :
                   /\ CommitsBy(commits, a) <= top[r].commits
                   /\ CommitsBy(commits, a) = top[r].commits =>
                          FirstCommitBy(commits, top[r].developer)
                              < FirstCommitBy(commits, a)

\* Seven developers; 7 and 6 lead with equal counts in the order of their first
\* commits, and a developer left out has as many commits as the fifth listed.
C19_Witness ==
    /\ TeamReturned
    /\ Cardinality(AuthorNames(commits)) > 5
    /\ Len(result.top_contributors) = 5
    /\ result.top_contributors[1].developer = Developer(7)
    /\ result.top_contributors[2].developer = Developer(6)
    /\ result.top_contributors[1].commits = result.top_contributors[2].commits
    /\ result.top_contributors[2].commits > result.top_contributors[3].commits
    /\ \E a \in AuthorNames(commits) \ Listed :
           CommitsBy(commits, a) = result.top_contributors[5].commits

\* C20: a low_activity warning is emitted for a contributor exactly when their
\* commits are fewer than 3 and below 5% of all commits, in integers
\* 100 * commits < 5 * total, whether or not they are among the top 5.
C20_LowActivityAlerts ==
    TeamReturned =>
        LET alerts == result.alerts
            total == Len(commits)
        IN  /\ \A a \in AuthorNames(commits) :
                   (\E k \in 1..Len(alerts) : alerts[k].developer = a)
                       <=> /\ CommitsBy(commits, a) < 3
                           /\ 100 * CommitsBy(commits, a) < 5 * total
            /\ \A k \in 1..Len(alerts) :
                   /\ alerts[k].type = "low_activity"
                   /\ alerts[k].severity = "warning"
                   /\ alerts[k].developer \in AuthorNames(commits)
                   /\ \A j \in 1..(k - 1) : alerts[j].developer # alerts[k].developer

\* 41 commits: a developer outside the top 5 is alerted, and so is a developer
\* with 2 commits, just under 5%.
C20_Witness ==
    /\ TeamReturned
    /\ Len(commits) = 41
    /\ \E k \in 1..Len(result.alerts) : result.alerts[k].developer \notin Listed
    /\ \E k \in 1..Len(result.alerts) :
           CommitsBy(commits, result.alerts[k].developer) = 2

\* 40 commits: a developer with 2 commits, exactly 5%, is not alerted.
C20_AtFivePercent ==
    /\ TeamReturned
    /\ Len(commits) = 40
    /\ \E a \in AuthorNames(commits) :
           /\ CommitsBy(commits, a) = 2
           /\ \A k \in 1..Len(result.alerts) : result.alerts[k].developer # a

\* 61 commits: a developer with 3 commits, under 5%, is not alerted.
C20_ThreeCommits ==
    /\ TeamReturned
    /\ Len(commits) = 61
    /\ \E a \in AuthorNames(commits) :
           /\ CommitsBy(commits, a) = 3
           /\ \A k \in 1..Len(result.alerts) : result.alerts[k].developer # a

----------------------------------------------------------------------------
(* Properties of the parsers and the aggregators on empty input.           *)

\* The call is one on the empty text, the empty history or the empty list.
OnEmptyInput == raw = <<>> /\ developer_stats = <<>> /\ (fn \in Aggregators => commits = <<>>)

\* C11: on empty input no parser or aggregator raises; parse_commit_history,
\* parse_file_history and parse_branches return an empty sequence;
\* parse_fetch_output returns empty remotes_synced, branches_updated and
\* branches_pruned; the five aggregators return all-zero totals, null rankings
\* and empty collections.
C11_EmptyInput ==
    OnEmptyInput =>
        /\ pc \in {"start", "done"}
        /\ error = ""
        /\ (pc = "done" /\ fn \in {"parse_commit_history", "parse_file_history"}) =>
               commits = <<>>
        /\ (pc = "done" /\ fn = "parse_branches") => result = <<>>
        /\ (pc = "done" /\ fn = "parse_fetch_output") =>
               /\ result.remotes_synced = <<>>
               /\ result.branches_updated = <<>>
               /\ result.branches_pruned = <<>>
        /\ (pc = "done" /\ fn = "analyze_developer_stats") =>
               /\ result.total_commits = 0
               /\ result.total_files_changed = 0
               /\ result.total_additions = 0
               /\ result.total_deletions = 0
               /\ result.most_active_files = <<>>
               /\ result.file_types = <<>>
        /\ (pc = "done" /\ fn = "compare_developers") =>
               /\ \A m \in DOMAIN result.rankings : result.rankings[m] = NoRanking
               /\ \A m \in DOMAIN result.totals : result.totals[m] = 0
               /\ DOMAIN result.rankings =
                      {"most_commits", "most_files_changed", "most_additions",
                       "most_deletions", "most_active"}
               /\ DOMAIN result.totals =
                      {"total_commits", "total_files_changed", "total_additions",
                       "total_deletions"}
        /\ (pc = "done" /\ fn = "analyze_executive_summary") =>
               /\ \A m \in DOMAIN result : result[m] = 0
               /\ DOMAIN result =
                      {"total_commits", "total_developers", "total_files_changed",
                       "total_additions", "total_deletions", "net_lines",
                       "avg_commits_per_day"}
        /\ (pc = "done" /\ fn = "analyze_team_performance") =>
               /\ result.top_contributors = <<>>
               /\ result.developer_count = 0
               /\ result.active_developers = 0
               /\ result.alerts = <<>>
        /\ (pc = "done" /\ fn = "analyze_code_health") =>
               /\ result.hotspots = <<>>
               /\ result.high_churn_files = <<>>
               /\ result.file_types_distribution = <<>>

\* compare_developers has returned from the empty list.
C11_Witness ==
    /\ OnEmptyInput
    /\ fn = "compare_developers"
    /\ pc = "done"
    /\ result.rankings.most_active = NoRanking
    /\ result.totals.total_commits = 0


----------------------------------------------------------------------------
(* Properties of analyze_code_health.                                      *)

HealthReturned ==
    fn = "analyze_code_health" /\ pc = "done" /\ commits # <<>>

\* The developers whose commits touch the path p.
DevelopersOf(cs, p) == {cs[k].author_name : k \in CommitsTouching(cs, p)}

\* The hotspot returned for the path p, if there is one.
HotspotOf(p) ==
    {result.hotspots[r] : r \in {q \in 1..Len(result.hotspots) : result.hotspots[q].path = p}}

\* C21: the risk_level of a file is "high" if its commit count > 15 or its
\* distinct-developer count > 5, otherwise "medium" if its commit count > 8 or
\* its distinct-developer count > 3, otherwise "low"; the thresholds are strict.
C21_RiskLevels ==
    HealthReturned =>
        \A r \in 1..Len(result.hotspots) :
            LET hotspot == result.hotspots[r]
                c == Cardinality(CommitsTouching(commits, hotspot.path))
                d == Cardinality(DevelopersOf(commits, hotspot.path))
            IN  /\ hotspot.commits = c
                /\ hotspot.developers = d
                /\ hotspot.risk_level =
                       IF c > 15 \/ d > 5 THEN "high"
                       ELSE IF c > 8 \/ d > 3 THEN "medium"
                       ELSE "low"

\* "x" with 15 commits by 3 developers is "medium", ".g" with 8 commits by 3
\* developers is "low".
C21_Witness ==
    /\ HealthReturned
    /\ \E h \in HotspotOf(PathNoExt) :
           h.commits = 15 /\ h.developers = 3 /\ h.risk_level = "medium"
    /\ \E h \in HotspotOf(PathHidden) :
           h.commits = 8 /\ h.developers = 3 /\ h.risk_level = "low"

\* "x" with 16 commits by 2 developers is "high", ".g" with 10 commits by 1 or
\* 2 developers is "medium".
C21_SixteenAndTen ==
    /\ HealthReturned
    /\ \E h \in HotspotOf(PathNoExt) :
           h.commits = 16 /\ h.developers = 2 /\ h.risk_level = "high"
    /\ \E h \in HotspotOf(PathHidden) :
           h.commits = 10 /\ h.risk_level = "medium"

\* "x" with 6 commits by 6 developers is "high".
C21_ByDevelopers ==
    /\ HealthReturned
    /\ \E h \in HotspotOf(PathNoExt) :
           h.commits = 6 /\ h.developers = 6 /\ h.risk_level = "high"

\* C22: hotspots holds the min(10, number of distinct files) files with the most
\* commits, whatever their risk level, in non-increasing order of commit count
\* with ranks 1..k in list order; no file left out has more commits than a
\* returned one, and files with equal commit counts keep first-encountered order.
C22_Hotspots ==
    HealthReturned =>
        LET hotspots == result.hotspots
            paths == TouchedPaths(commits)
            count == [p \in paths |-> Cardinality(CommitsTouching(commits, p))]
            listed == {hotspots[r].path : r \in 1..Len(hotspots)}
        IN  /\ Len(hotspots) = IF Cardinality(paths) < 10 THEN Cardinality(paths) ELSE 10
            /\ \A r \in 1..Len(hotspots) :
                   /\ hotspots[r].rank = r
                   /\ hotspots[r].path \in paths
                   /\ hotspots[r].commits = count[hotspots[r].path]
            /\ \A r \in 1..Len(hotspots), q \in 1..Len(hotspots) :
                   r < q =>
                       /\ hotspots[r].path # hotspots[q].path
                       /\ hotspots[r].commits >= hotspots[q].commits
                       /\ hotspots[r].commits = hotspots[q].commits =>
                              FirstSeenBefore(commits, hotspots[r].path, hotspots[q].path)
            /\ \A p \in paths \ listed, r \in 1..Len(hotspots) :
                   /\ count[p] <= hotspots[r].commits
                   /\ count[p] = hotspots[r].commits =>
                          FirstSeenBefore(commits, hotspots[r].path, p)

\* More than 10 files: the first hotspot is "high", the tenth is "low" and has
\* as many commits as a file left out.
C22_Witness ==
    /\ HealthReturned
    /\ Cardinality(TouchedPaths(commits)) > 10
    /\ Len(result.hotspots) = 10
    /\ result.hotspots[1].risk_level = "high"
    /\ result.hotspots[2].risk_level = "medium"
    /\ result.hotspots[10].risk_level = "low"
    /\ \E p \in TouchedPaths(commits) :
           /\ \A r \in 1..10 : result.hotspots[r].path # p
           /\ Cardinality(CommitsTouching(commits, p)) = result.hotspots[10].commits

\* The additions (what = "additions") or deletions the history cs makes to the
\* path p.
LinesChanged(cs, p, what) ==
    SumSeq([k \in 1..Len(cs) |->
               SumSeq([j \in 1..Len(cs[k].files) |->
                          IF cs[k].files[j].path = p THEN cs[k].files[j][what] ELSE 0])])

\* C23: high_churn_files lists only files whose churn, additions + deletions,
\* is greater than 100, the 5 of highest churn at most, in non-increasing churn
\* order; each is "stable" exactly when 10 * |additions - deletions| > 3 * churn
\* and "unstable" otherwise.
C23_HighChurnFiles ==
    HealthReturned =>
        LET high == result.high_churn_files
            paths == TouchedPaths(commits)
            added == [p \in paths |-> LinesChanged(commits, p, "additions")]
            deleted == [p \in paths |-> LinesChanged(commits, p, "deletions")]
            candidates == {p \in paths : added[p] + deleted[p] > 100}
            listed == {high[r].path : r \in 1..Len(high)}
        IN  /\ Len(high) = IF Cardinality(candidates) < 5 THEN Cardinality(candidates) ELSE 5
            /\ \A r \in 1..Len(high) :
                   LET p == high[r].path
                       net == added[p] - deleted[p]
                   IN  /\ p \in candidates
                       /\ high[r].additions = added[p]
                       /\ high[r].deletions = deleted[p]
                       /\ high[r].churn = added[p] + deleted[p]
                       /\ high[r].net_change = net
                       /\ high[r].stability =
                              IF 10 * (IF net < 0 THEN 0 - net ELSE net)
                                     > 3 * (added[p] + deleted[p])
                              THEN "stable" ELSE "unstable"
            /\ \A r \in 1..Len(high), q \in 1..Len(high) :
                   r < q => /\ high[r].path # high[q].path
                            /\ high[r].churn >= high[q].churn
            /\ \A p \in candidates \ listed, r \in 1..Len(high) :
                   added[p] + deleted[p] <= high[r].churn

\* Six files above the threshold, of which five are listed; a file of churn 100
\* is not a candidate; a file with 130 additions and 70 deletions, ratio 0.3, is
\* "unstable".
C23_Witness ==
    /\ HealthReturned
    /\ Len(result.high_churn_files) = 5
    /\ \E p \in TouchedPaths(commits) :
           /\ LinesChanged(commits, p, "additions") + LinesChanged(commits, p, "deletions") = 100
           /\ \A r \in 1..5 : result.high_churn_files[r].path # p
    /\ \E p \in TouchedPaths(commits) :
           /\ LinesChanged(commits, p, "additions") + LinesChanged(commits, p, "deletions") > 100
           /\ \A r \in 1..5 : result.high_churn_files[r].path # p
    /\ \E r \in 1..5 :
           /\ result.high_churn_files[r].additions = 130
           /\ result.high_churn_files[r].deletions = 70
           /\ result.high_churn_files[r].stability = "unstable"

\* A file with more deletions than additions is "stable" by the size of its
\* net change.
C23_StableByDeletions ==
    /\ HealthReturned
    /\ \E r \in 1..Len(result.high_churn_files) :
           /\ result.high_churn_files[r].net_change < 0
           /\ result.high_churn_files[r].stability = "stable"

----------------------------------------------------------------------------
(* Properties of repeated calls.                                           *)

----------------------------------------------------------------------------
(* Properties of the argument of compare_developers.                       *)

\* C27: after compare_developers returns, the developer_stats list that was
\* passed in and every stats mapping in it have exactly the keys and values
\* they had before the call.
C27_ArgumentUnchanged ==
    [][(fn = "compare_developers" /\ pc = "start" /\ pc' = "done")
           => developer_stats' = developer_stats]_vars

\* What the code keeps: the list has the developers it had, and every stats
\* mapping the keys and values it had, next to the key activity_score.
C27_OnlyActivityScoreAdded ==
    [][(fn = "compare_developers" /\ pc = "start" /\ pc' = "done") =>
           /\ Len(developer_stats') = Len(developer_stats)
           /\ \A k \in 1..Len(developer_stats) :
                  /\ developer_stats'[k].developer = developer_stats[k].developer
                  /\ DOMAIN developer_stats'[k].stats
                         = DOMAIN developer_stats[k].stats \cup {"activity_score"}
                  /\ \A key \in DOMAIN developer_stats[k].stats :
                         developer_stats'[k].stats[key] = developer_stats[k].stats[key]]_vars

\* A stats mapping holds activity_score after the call.
C27_ActivityScoreLeft ==
    /\ fn = "compare_developers"
    /\ pc = "done"
    /\ \E k \in 1..Len(developer_stats) :
           "activity_score" \in DOMAIN developer_stats[k].stats

----------------------------------------------------------------------------
(* Properties of build_comparison_json.                                    *)

\* The "git log" commands requested so far, in order.
LogCalls == SelectSeq(git_calls, LAMBDA c : c.command = "log")

\* C28: the developers list returned has exactly one entry per requested
\* author, in request order, built from one history query per author issued
\* one after the other; an author without commits has an entry of all-zero
\* stats; if a query fails the comparison fails and nothing is returned.
C28_OneEntryPerAuthor ==
    fn = "compare_developer_stats" =>
        /\ Len(LogCalls) <= Len(authors)
        /\ \A k \in 1..Len(LogCalls) : LogCalls[k].author = authors[k]
        /\ Len(LogCalls) - Len(developer_stats) \in {0, 1}
        /\ pc = "await log" => Len(LogCalls) = Len(developer_stats) + 1
        /\ pc = "done" =>
               /\ error = ""
               /\ Len(LogCalls) = Len(authors)
               /\ Len(result.developers) = Len(authors)
               /\ \A k \in 1..Len(authors) :
                      LET entry == result.developers[k]
                      IN  /\ entry.developer = authors[k]
                          /\ HistoryOf(authors[k]) = <<>> =>
                                 /\ entry.stats.total_commits = 0
                                 /\ entry.stats.total_files_changed = 0
                                 /\ entry.stats.total_additions = 0
                                 /\ entry.stats.total_deletions = 0
                                 /\ entry.stats.most_active_files = <<>>
                                 /\ entry.stats.file_types = <<>>
                          /\ HistoryOf(authors[k]) # <<>> => entry.stats.total_commits > 0
        /\ error # "" => pc = "raised"
        /\ pc = "raised" => result = <<>>

\* A comparison of three or more authors is returned; the second has no commits.
C28_Witness ==
    /\ fn = "compare_developer_stats"
    /\ pc = "done"
    /\ Len(authors) > 2
    /\ result.developers[1].stats.total_commits = 1
    /\ result.developers[2].developer = AuthorB
    /\ result.developers[2].stats.total_commits = 0
    /\ result.developers[3].developer = AuthorA

\* The query for the second author fails after the first author's entry is built.
C28_SecondQueryFails ==
    /\ fn = "compare_developer_stats"
    /\ pc = "raised"
    /\ error \in GitFailures
    /\ Len(developer_stats) = 1
    /\ Len(LogCalls) = 2
    /\ result = <<>>

----------------------------------------------------------------------------
(* Properties of the repository check of the tools.                        *)

\* The commands task has started other than the check.
OtherCommands(task) ==
    {k \in 1..Len(task.git_calls) : task.git_calls[k].command # "rev-parse"}

\* The check of task has failed: the path is empty or no directory, git was
\* not found for the probe, or the probe has ended with an exception.
CheckFailed(task) ==
    /\ task.pc # "start"
    /\ \/ task.repo_path = ""
       \/ ~IsDir(task.repo_path)
       \/ task.git_calls = <<>>
       \/ task.git_calls[1].outcome \in GitFailures

\* The exception a failed check raises.
CheckError(task) ==
    IF task.repo_path = "" THEN "ValueError"
    ELSE IF ~IsDir(task.repo_path) THEN "GitRepositoryError"
    ELSE IF task.git_calls = <<>> THEN "GitNotFoundError"
    ELSE task.git_calls[1].outcome

\* C29: every tool has started a git command other than the probe
\* "git rev-parse --git-dir" of ensure_is_git_repo only after that probe, its
\* first command, has ended with exit status 0; and when the check has failed
\* (empty path, no directory, the probe not started or ended with an exception)
\* the task has started no other command, has returned nothing and has raised
\* the exception of the check.
C29_CheckBeforeAnyCommand ==
    \A t \in DOMAIN tasks :
        LET task == tasks[t]
        IN  /\ OtherCommands(task) # {} =>
                  /\ task.git_calls[1].command = "rev-parse"
                  /\ task.git_calls[1].outcome = "ok"
                  /\ 1 \notin OtherCommands(task)
            /\ CheckFailed(task) =>
                  /\ OtherCommands(task) = {}
                  /\ task.pc = "raised"
                  /\ task.error = CheckError(task)

\* Two tools on the repository: the probe of one has timed out and nothing
\* else was started, the other has passed the check and awaits its command.
C29_Witness ==
    /\ Len(tasks) = 2
    /\ CheckFailed(tasks[1])
    /\ tasks[1].error = "GitTimeoutError"
    /\ Len(tasks[1].git_calls) = 1
    /\ tasks[2].pc = "await"
    /\ OtherCommands(tasks[2]) # {}


----------------------------------------------------------------------------
(* Properties of sync_repository.                                          *)

\* The commands of task named in names, by their place in git_calls.
CommandsAmong(task, names) ==
    {k \in 1..Len(task.git_calls) : task.git_calls[k].command \in names}

\* The fetch or the pull of task has ended with an exception.
SyncFailed(task) ==
    \E k \in CommandsAmong(task, {"fetch", "pull"}) :
        task.git_calls[k].outcome \in GitFailures

C30_InvalidOperationRaised ==
    \E t \in DOMAIN tasks :
        /\ tasks[t].tool = "sync_repository"
        /\ tasks[t].operation = "push"
        /\ tasks[t].error = "ValueError"
        /\ Len(tasks[t].git_calls) = 1

\* A pull has timed out: no status, no response.
C30_SyncFailedReached ==
    \E t \in DOMAIN tasks :
        /\ SyncFailed(tasks[t])
        /\ tasks[t].error = "GitTimeoutError"

----------------------------------------------------------------------------
(* Properties of the git commands on the repository.                       *)

\* Task t awaits the git command named command in this state and no longer in
\* the next: the command ends in the step.
CommandEnds(t, command) ==
    /\ tasks[t].pc = "await"
    /\ Awaited(tasks[t]).command = command
    /\ tasks'[t].git_calls[Len(tasks[t].git_calls)].outcome # "running"

\* C26: no step of any tool, whatever its arguments, changes the local
\* branches, the commits they hold or the branch that is checked out.
C26_LocalBranchesUnchanged ==
    [][/\ repository'.branches = repository.branches
       /\ repository'.head = repository.head]_vars

\* What holds of the code: the checked-out branch never changes; a local branch
\* changes only in a step in which a "git pull" of sync_repository, called
\* with the operation "pull", ends, and then only the checked-out branch
\* changes, taking the commits of the remote; a step in which any other
\* command ends ("rev-parse", "branch", "log", "status", "fetch") leaves every
\* local branch as it was, a fetch moving the remote-tracking branches only.
C26_OnlyPullMovesABranch ==
    [][/\ repository'.head = repository.head
       /\ repository'.remote = repository.remote
       /\ repository'.branches # repository.branches =>
             /\ \E t \in DOMAIN tasks :
                   /\ tasks[t].tool = "sync_repository"
                   /\ tasks[t].operation = "pull"
                   /\ CommandEnds(t, "pull")
             /\ \A b \in LocalBranches :
                   repository'.branches[b] =
                       IF b = repository.head THEN repository.remote[b]
                       ELSE repository.branches[b]
       /\ repository'.tracking # repository.tracking =>
             /\ \E t \in DOMAIN tasks : CommandEnds(t, "fetch") \/ CommandEnds(t, "pull")
             /\ repository'.tracking = repository.remote]_vars

\* A pull has moved the checked-out branch.
C26_BranchMoved == repository.branches[repository.head] > 1

\* A fetch has moved a remote-tracking branch and no local branch.
C26_FetchMovedTracking ==
    /\ \A b \in LocalBranches : repository.branches[b] = 1
    /\ \E b \in LocalBranches : repository.tracking[b] > 1
    /\ \E t \in DOMAIN tasks :
          /\ tasks[t].operation = "fetch"
          /\ tasks[t].pc = "done"

----------------------------------------------------------------------------
(* Properties of concurrent tool calls.                                    *)

\* The repository as it was before any tool was called.
Snapshot ==
    [repository EXCEPT !.branches = [b \in LocalBranches |-> 1],
                       !.tracking = [b \in LocalBranches |-> 1]]

\* The entries of the authors names, each from the history of its author.
EntriesAlone(names, repo) ==
    [k \in 1..Len(names) |->
        [developer |-> names[k],
         stats |-> analyze_developer_stats(
                       parse_commit_history(LogText(repo, names[k])).value)]]

\* What sync_repository hands to build_sync_json for the operation on repo.
SyncOutputAlone(operation, repo) ==
    IF operation = "pull" THEN PullReport(PullText(repo)) ELSE FetchText(repo)

\* The response of the call when it runs alone on the repository repo, every
\* git command ending with exit status 0 and the clock reading now: the
\* statements of the tool one after the other.
RunAlone(call, repo, now) ==
    IF call.tool = "get_branch_list"
    THEN build_branch_list_json(call.repo_path, BranchText(repo))
    ELSE IF call.tool = "get_commit_history"
    THEN build_commit_history_json(call.repo_path, LogText(repo, None))
    ELSE IF call.tool = "get_developer_stats"
    THEN build_developer_stats_json(call.repo_path, AuthorA, LogText(repo, AuthorA))
    ELSE IF call.tool = "get_file_changes"
    THEN build_file_history_json(call.repo_path, FilePath, LogText(repo, None))
    ELSE IF call.tool = "get_project_dashboard"
    THEN build_dashboard_json(call.repo_path, LogText(repo, None))
    ELSE IF call.tool = "compare_developer_stats"
    THEN ComparisonResponse(call.repo_path, EntriesAlone(call.authors, repo))
    ELSE build_sync_json(call.repo_path, call.operation,
                         SyncOutputAlone(call.operation, repo),
                         StatusText(After(call.operation, repo)), now)

\* The reading of the clock in the response of task, if it has one.
ClockOf(task) ==
    IF task.tool = "sync_repository" THEN task.result.timestamp ELSE "T1"

\* C25: a tool call that has answered while the repository is as it was
\* before the calls, whether it ran alone or interleaved with another call at
\* its awaits, has returned exactly the response of the call run alone on that
\* repository (with the clock reading of its own response).
C25_SameResultAsAlone ==
    \A t \in DOMAIN tasks :
        (tasks[t].pc = "done" /\ (Len(tasks) = 1 \/ repository = Snapshot)) =>
            tasks[t].result =
                RunAlone(CallOf(tasks[t]), Snapshot, ClockOf(tasks[t])).value

\* A fetch has answered while a comparison, with the entry of its first
\* author collected, awaits the history of the second: the repository is as
\* it was.
C25_Witness ==
    /\ Len(tasks) = 2
    /\ repository = Snapshot
    /\ tasks[1].tool = "sync_repository"
    /\ tasks[1].pc = "done"
    /\ tasks[2].tool = "compare_developer_stats"
    /\ tasks[2].pc = "await"
    /\ Len(tasks[2].developer_stats) = 1

\* Two calls of sync_repository are between their sync and their status at the
\* same time, each holding its own raw_output.
C25_BothAwaitStatus ==
    /\ Len(tasks) = 2
    /\ \A t \in DOMAIN tasks :
          /\ tasks[t].pc = "await"
          /\ Awaited(tasks[t]).command = "status"
    /\ tasks[1].raw # tasks[2].raw

====
